---------------------------- MODULE Spec2Model ----------------------------
(***************************************************************************)
(* A model of gh-sentinel: the patch engine (pkg/patcher), the parser of   *)
(* the Copilot reply and the evidence of its prompt (pkg/copilot,          *)
(* pkg/github), the log analyzer (internal/analyzer) and the configuration *)
(* they read.                                                              *)
(*                                                                         *)
(* Strings are sequences of one-character strings, so that substring       *)
(* search, trimming, splitting and concatenation are computed as the Go    *)
(* code computes them.  A file system is a function from the paths that    *)
(* exist to their contents.                                                *)
(***************************************************************************)
EXTENDS Integers, Sequences, FiniteSets, TLC

VARIABLES
    files,            \* the disk: [existing path -> content]
    now,              \* the wall clock, in whole seconds
    pc,               \* where the running Patcher call stands
    req,              \* the PatchRequest of the running Apply
    originalContent,  \* Apply's local: what os.ReadFile returned
    existed,          \* Apply's local: os.ReadFile returned err == nil
    backupPath,       \* Apply's local: the backup path, "" when none
    result,           \* what the last Patcher call returned
    pre,              \* the disk when the last Patcher call started
    prev,             \* for a Rollback: the call before it, [result, pre]
    ops,              \* the number of Apply and Rollback calls made so far
    raw,              \* the oracle's reply handed to parseResponse
    defaultTarget,    \* parseResponse's defaultTarget argument
    diag,             \* what parseResponse returned
    parses,           \* the earlier parses of this Client: [raw, defaultTarget, diag]
    logs,             \* the evidence handed to AnalyzeLogs
    analyses,         \* the Analysis values AnalyzeLogs returned for logs, in order
    top,              \* what the last GetTopSuggestions call returned, and its limit
    jobLogs,          \* the logs of the failed jobs as GitHub serves them
    errorLogs,        \* DiagnosisRequest.ErrorLogs
    prompt,           \* DiagnoseAndFix's logs and the evidence in its prompt
    taken,            \* the backups taken, in order: [FilePath, BackupPath, Content saved]
    external,         \* what another process wrote to the target during an Apply
    step,             \* where a run of analyzeAndFix stands, "off" when none runs
    evidence,         \* analyzeAndFix's local logs
    trail,            \* what has happened in the run, in order
    outcome,          \* what analyzeAndFix returned
    runs,             \* the runs ListWorkflowRuns returned, most recent first
    failedRuns        \* what GetFailedWorkflowRuns returned

patchVars == <<files, now, pc, req, originalContent, existed, backupPath,
               result, pre, prev, ops>>
parseVars == <<raw, defaultTarget, diag, parses>>
analyzerVars == <<logs, analyses, top>>
promptVars == <<jobLogs, errorLogs, prompt>>
historyVars == <<taken, external>>
pipelineVars == <<step, evidence, trail, outcome>>
runVars == <<runs, failedRuns>>
otherVars == <<historyVars, pipelineVars, runVars>>
vars == <<files, now, pc, req, originalContent, existed, backupPath,
          result, pre, prev, ops, raw, defaultTarget, diag, parses,
          logs, analyses, top, jobLogs, errorLogs, prompt, taken, external,
          step, evidence, trail, outcome, runs, failedRuns>>

----------------------------------------------------------------------------
(* Bounds of the model *)

\* the clock takes the values 0..MaxTime
MaxTime == 1
\* at most MaxOps Apply and Rollback calls are made in one behaviour
MaxOps == 2

----------------------------------------------------------------------------
(* The strings package, on sequences of characters *)

EmptyString == <<>>

\* the character U+0060, which a TLA+ string literal cannot hold
Backtick == "U+0060"

\* s[i..] starts with p (i is 1-indexed)
HasPrefixAt(s, i, p) ==
    /\ i >= 1
    /\ i + Len(p) - 1 <= Len(s)
    /\ \A k \in 1..Len(p) : s[i + k - 1] = p[k]

\* strings.HasPrefix
HasPrefix(s, p) == HasPrefixAt(s, 1, p)

\* strings.HasSuffix
HasSuffix(s, p) == Len(p) <= Len(s) /\ HasPrefixAt(s, Len(s) - Len(p) + 1, p)

\* strings.Contains
Contains(s, p) == \E i \in 1..(Len(s) - Len(p) + 1) : HasPrefixAt(s, i, p)

\* the first index >= i at which c occurs in s, Len(s)+1 when there is none
RECURSIVE IndexFrom(_, _, _)
IndexFrom(s, i, c) ==
    IF i > Len(s) THEN Len(s) + 1
    ELSE IF s[i] = c THEN i
    ELSE IndexFrom(s, i + 1, c)

\* strings.Split(s, sep) for a one-character separator: always at least one
\* part, and n separators give n+1 parts
RECURSIVE SplitFrom(_, _, _)
SplitFrom(s, i, c) ==
    LET j == IndexFrom(s, i, c)
    IN  IF j > Len(s) THEN <<SubSeq(s, i, Len(s))>>
        ELSE <<SubSeq(s, i, j - 1)>> \o SplitFrom(s, j + 1, c)

Split(s, c) == SplitFrom(s, 1, c)

\* unicode.IsSpace on the characters of the model
IsSpace(c) == c \in {" ", "\t", "\n", "\r", "\f"}

RECURSIVE TrimLeftSpace(_)
TrimLeftSpace(s) ==
    IF s # <<>> /\ IsSpace(Head(s)) THEN TrimLeftSpace(Tail(s)) ELSE s

RECURSIVE TrimRightSpace(_)
TrimRightSpace(s) ==
    IF s # <<>> /\ IsSpace(s[Len(s)])
    THEN TrimRightSpace(SubSeq(s, 1, Len(s) - 1)) ELSE s

\* strings.TrimSpace
TrimSpace(s) == TrimRightSpace(TrimLeftSpace(s))

\* the set of elements of a sequence
Range(s) == {s[i] : i \in 1..Len(s)}

----------------------------------------------------------------------------
(* internal/config: Default() *)

BackupEnabled == TRUE

BackupSuffix == <<".", "s", "e", "n", "t", "i", "n", "e", "l", ".", "b", "a", "k">>

----------------------------------------------------------------------------
(* pkg/patcher *)

\* the workflow file the patcher is pointed at
TargetPath == <<"w", ".", "y", "m", "l">>

Targets == {TargetPath}

\* the replacement contents a caller hands to Apply, and the contents the
\* target may hold at the start
Contents ==
    { EmptyString,
      <<"o", "n", ":">>,
      <<"a">>,
      <<" ", "o", "n", ":">>,
      <<"o", "n", ":", "\n", "\t">> }

Digits == <<"0", "1", "2", "3", "4", "5", "6", "7", "8", "9">>

\* time.Now().Format("20060102_150405"): a fixed-width decimal rendering of
\* the clock at one-second resolution (here its two lowest digits)
FormatTime(t) == <<Digits[((t \div 10) % 10) + 1], Digits[(t % 10) + 1]>>

\* fmt.Sprintf("%s.%s%s", filePath, timestamp, p.config.BackupSuffix)
BackupPathOf(filePath, t) == filePath \o <<".">> \o FormatTime(t) \o BackupSuffix

NoResult == [op |-> "none"]

NoPrev == [result |-> NoResult, pre |-> <<>>]

\* a returned *SentinelError: its Type, Op and Path, and (stage) the step of
\* the call whose failure it wraps in Err
ErrResult(opname, type, errOp, errPath, stage) ==
    [op |-> opname, err |-> type, errOp |-> errOp, errPath |-> errPath,
     stage |-> stage]

\* validateYAML: the marker check, then the tab check with the 1-indexed
\* number of the first line that holds a tab (0 when the content passes)
HasMarker(content) ==
    \/ Contains(content, <<"n", "a", "m", "e", ":">>)
    \/ Contains(content, <<"j", "o", "b", "s", ":">>)
    \/ Contains(content, <<"o", "n", ":">>)

FirstTabLine(content) ==
    LET lines == Split(content, "\n")
        bad == {i \in 1..Len(lines) : Contains(lines[i], <<"\t">>)}
    IN  IF bad = {} THEN 0 ELSE CHOOSE i \in bad : \A j \in bad : i <= j

validateYAML(content) ==
    IF ~HasMarker(content) THEN "no_marker"
    ELSE IF FirstTabLine(content) # 0 THEN "tabs"
    ELSE "ok"

\* calculateDiff: one count per line of the new side that is not a line of
\* the original and is not blank, and the same the other way round
calculateDiff(original, new) ==
    LET originalLines == Split(original, "\n")
        newLines == Split(new, "\n")
        originalSet == Range(originalLines)
        newSet == Range(newLines)
        added == Cardinality({i \in 1..Len(newLines) :
                    newLines[i] \notin originalSet /\ TrimSpace(newLines[i]) # <<>>})
        removed == Cardinality({i \in 1..Len(originalLines) :
                    originalLines[i] \notin newSet /\ TrimSpace(originalLines[i]) # <<>>})
    IN  <<added, removed>>

\* os.WriteFile(path, data): the file is opened with O_CREATE|O_TRUNC and
\* then written.  On success the file holds data.
WriteOk(fs, path, data) ==
    [p \in DOMAIN fs \cup {path} |-> IF p = path THEN data ELSE fs[p]]

\* os.WriteFile failing: either the open failed and the disk is as it was,
\* or the open truncated the file and the write or the close failed, which
\* leaves some prefix of data
WriteFailed(fs, path, data) ==
    {fs} \cup {WriteOk(fs, path, SubSeq(data, 1, k)) : k \in 0..Len(data)}

\* Apply, lines 47-59: the checks made before the disk is touched
ApplyCall(path, content, validate) ==
    /\ pc = "idle"
    /\ ops < MaxOps
    /\ ops' = ops + 1
    /\ pre' = files
    /\ prev' = NoPrev
    /\ req' = [FilePath |-> path, NewContent |-> content, ValidateYAML |-> validate]
    /\ originalContent' = EmptyString
    /\ existed' = FALSE
    /\ backupPath' = EmptyString
    /\ IF content = EmptyString
       THEN /\ result' = ErrResult("Apply", "validation", "apply_patch", EmptyString, "check")
            /\ pc' = "idle"
       ELSE IF validate /\ validateYAML(content) # "ok"
       THEN /\ result' = ErrResult("Apply", "validation", "validate_yaml", EmptyString, "check")
            /\ pc' = "idle"
       ELSE /\ result' = [op |-> "Apply", err |-> "running"]
            /\ pc' = "read"
    /\ UNCHANGED <<files, now>>

\* ApplyRead with the backup step left out: the read goes straight on to
\* the write of the target
ApplyRead_SkipBackup(ioFails) ==
    /\ pc = "read"
    /\ IF req.FilePath \notin DOMAIN files
       THEN /\ ~ioFails
            /\ pc' = "write"
            /\ UNCHANGED <<originalContent, existed, result>>
       ELSE IF ioFails
       THEN /\ result' = ErrResult("Apply", "filesystem", "apply_patch", req.FilePath, "read")
            /\ pc' = "idle"
            /\ UNCHANGED <<originalContent, existed>>
       ELSE /\ originalContent' = files[req.FilePath]
            /\ existed' = TRUE
            /\ pc' = "write"
            /\ UNCHANGED result
    /\ UNCHANGED <<files, now, req, backupPath, pre, prev, ops>>

\* Apply, lines 61-77: os.ReadFile of the target.  A path that is not on the
\* disk gives IsNotExist; a path that is gives its content, or fails with
\* another error (ioFails)
ApplyRead(ioFails) ==
    /\ pc = "read"
    /\ IF req.FilePath \notin DOMAIN files
       THEN /\ ~ioFails
            /\ pc' = "write"
            /\ UNCHANGED <<originalContent, existed, result>>
       ELSE IF ioFails
       THEN /\ result' = ErrResult("Apply", "filesystem", "apply_patch", req.FilePath, "read")
            /\ pc' = "idle"
            /\ UNCHANGED <<originalContent, existed>>
       ELSE /\ originalContent' = files[req.FilePath]
            /\ existed' = TRUE
            /\ pc' = IF BackupEnabled THEN "backup" ELSE "write"
            /\ UNCHANGED result
    /\ UNCHANGED <<files, now, req, backupPath, pre, prev, ops>>

\* ApplyBackup saving the replacement content instead of the original
ApplyBackup_NewContent(ioFails) ==
    /\ pc = "backup"
    /\ LET path == BackupPathOf(req.FilePath, now)
       IN  IF ioFails
           THEN /\ files' \in WriteFailed(files, path, req.NewContent)
                /\ result' = ErrResult("Apply", "filesystem", "create_backup", path, "backup")
                /\ pc' = "idle"
                /\ UNCHANGED backupPath
           ELSE /\ files' = WriteOk(files, path, req.NewContent)
                /\ backupPath' = path
                /\ pc' = "write"
                /\ UNCHANGED result
    /\ UNCHANGED <<now, req, originalContent, existed, pre, prev, ops>>

\* ApplyBackup in the wrong order: the target is overwritten first and the
\* backup is written after it
ApplyBackup_TargetFirst(ioFails) ==
    /\ pc = "backup"
    /\ LET path == BackupPathOf(req.FilePath, now)
           written == WriteOk(files, req.FilePath, req.NewContent)
       IN  IF ioFails
           THEN /\ files' \in WriteFailed(written, path, originalContent)
                /\ result' = ErrResult("Apply", "filesystem", "create_backup", path, "backup")
                /\ pc' = "idle"
                /\ UNCHANGED backupPath
           ELSE /\ files' = WriteOk(written, path, originalContent)
                /\ backupPath' = path
                /\ pc' = "write"
                /\ UNCHANGED result
    /\ UNCHANGED <<now, req, originalContent, existed, pre, prev, ops>>

\* ApplyBackup reading the target again when it writes the backup
ApplyBackup_Reread(ioFails) ==
    /\ pc = "backup"
    /\ LET path == BackupPathOf(req.FilePath, now)
           current == IF req.FilePath \in DOMAIN files THEN files[req.FilePath]
                      ELSE originalContent
       IN  IF ioFails
           THEN /\ files' \in WriteFailed(files, path, current)
                /\ result' = ErrResult("Apply", "filesystem", "create_backup", path, "backup")
                /\ pc' = "idle"
                /\ UNCHANGED backupPath
           ELSE /\ files' = WriteOk(files, path, current)
                /\ backupPath' = path
                /\ pc' = "write"
                /\ UNCHANGED result
    /\ UNCHANGED <<now, req, originalContent, existed, pre, prev, ops>>

\* Apply, lines 67-73, and createBackup: the backup is written under the
\* current second's name
ApplyBackup(ioFails) ==
    /\ pc = "backup"
    /\ LET path == BackupPathOf(req.FilePath, now)
       IN  IF ioFails
           THEN /\ files' \in WriteFailed(files, path, originalContent)
                /\ result' = ErrResult("Apply", "filesystem", "create_backup", path, "backup")
                /\ pc' = "idle"
                /\ UNCHANGED backupPath
           ELSE /\ files' = WriteOk(files, path, originalContent)
                /\ backupPath' = path
                /\ pc' = "write"
                /\ UNCHANGED result
    /\ UNCHANGED <<now, req, originalContent, existed, pre, prev, ops>>

\* ApplyWrite computing the diff statistics also when nothing was read
ApplyWrite_AlwaysDiff(ioFails) ==
    /\ pc = "write"
    /\ LET diff == calculateDiff(originalContent, req.NewContent)
       IN  IF ioFails
           THEN /\ files' \in WriteFailed(files, req.FilePath, req.NewContent)
                /\ result' = ErrResult("Apply", "filesystem", "apply_patch", req.FilePath, "write")
           ELSE /\ files' = WriteOk(files, req.FilePath, req.NewContent)
                /\ result' = [op |-> "Apply", err |-> "none", Success |-> TRUE,
                              BackupPath |-> backupPath,
                              LinesAdded |-> diff[1], LinesRemoved |-> diff[2]]
    /\ pc' = "idle"
    /\ UNCHANGED <<now, req, originalContent, existed, backupPath, pre, prev, ops>>

\* Apply, lines 79-97: the diff statistics and the write of the target
ApplyWrite(ioFails) ==
    /\ pc = "write"
    /\ LET diff == IF Len(originalContent) > 0
                   THEN calculateDiff(originalContent, req.NewContent)
                   ELSE <<0, 0>>
       IN  IF ioFails
           THEN /\ files' \in WriteFailed(files, req.FilePath, req.NewContent)
                /\ result' = ErrResult("Apply", "filesystem", "apply_patch", req.FilePath, "write")
           ELSE /\ files' = WriteOk(files, req.FilePath, req.NewContent)
                /\ result' = [op |-> "Apply", err |-> "none", Success |-> TRUE,
                              BackupPath |-> backupPath,
                              LinesAdded |-> diff[1], LinesRemoved |-> diff[2]]
    /\ pc' = "idle"
    /\ UNCHANGED <<now, req, originalContent, existed, backupPath, pre, prev, ops>>

\* Rollback moving the backup instead of copying it: the backup is gone
\* once the target has been restored
Rollback_Move(filePath, bPath, readFails, writeFails) ==
    /\ pc = "idle"
    /\ ops < MaxOps
    /\ ops' = ops + 1
    /\ pre' = files
    /\ prev' = [result |-> result, pre |-> pre]
    /\ IF bPath \notin DOMAIN files \/ readFails
       THEN /\ result' = ErrResult("Rollback", "filesystem", "rollback", bPath, "read")
                           @@ [filePath |-> filePath, backupPath |-> bPath]
            /\ UNCHANGED files
       ELSE IF writeFails
       THEN /\ files' \in WriteFailed(files, filePath, files[bPath])
            /\ result' = ErrResult("Rollback", "filesystem", "rollback", filePath, "write")
                           @@ [filePath |-> filePath, backupPath |-> bPath]
       ELSE /\ files' = [p \in (DOMAIN files \cup {filePath}) \ {bPath} |->
                            IF p = filePath THEN files[bPath] ELSE files[p]]
            /\ result' = [op |-> "Rollback", err |-> "none",
                          filePath |-> filePath, backupPath |-> bPath]
    /\ UNCHANGED <<now, pc, req, originalContent, existed, backupPath>>

\* Rollback with its two paths swapped: it reads the target and overwrites
\* the backup
Rollback_Swapped(filePath, bPath, readFails, writeFails) ==
    /\ pc = "idle"
    /\ ops < MaxOps
    /\ ops' = ops + 1
    /\ pre' = files
    /\ prev' = [result |-> result, pre |-> pre]
    /\ IF filePath \notin DOMAIN files \/ readFails
       THEN /\ result' = ErrResult("Rollback", "filesystem", "rollback", filePath, "read")
                           @@ [filePath |-> filePath, backupPath |-> bPath]
            /\ UNCHANGED files
       ELSE IF writeFails
       THEN /\ files' \in WriteFailed(files, bPath, files[filePath])
            /\ result' = ErrResult("Rollback", "filesystem", "rollback", bPath, "write")
                           @@ [filePath |-> filePath, backupPath |-> bPath]
       ELSE /\ files' = WriteOk(files, bPath, files[filePath])
            /\ result' = [op |-> "Rollback", err |-> "none",
                          filePath |-> filePath, backupPath |-> bPath]
    /\ UNCHANGED <<now, pc, req, originalContent, existed, backupPath>>

\* Rollback, lines 113-127: read the backup, overwrite the target with it
Rollback(filePath, bPath, readFails, writeFails) ==
    /\ pc = "idle"
    /\ ops < MaxOps
    /\ ops' = ops + 1
    /\ pre' = files
    /\ prev' = [result |-> result, pre |-> pre]
    /\ IF bPath \notin DOMAIN files \/ readFails
       THEN /\ result' = ErrResult("Rollback", "filesystem", "rollback", bPath, "read")
                           @@ [filePath |-> filePath, backupPath |-> bPath]
            /\ UNCHANGED files
       ELSE IF writeFails
       THEN /\ files' \in WriteFailed(files, filePath, files[bPath])
            /\ result' = ErrResult("Rollback", "filesystem", "rollback", filePath, "write")
                           @@ [filePath |-> filePath, backupPath |-> bPath]
       ELSE /\ files' = WriteOk(files, filePath, files[bPath])
            /\ result' = [op |-> "Rollback", err |-> "none",
                          filePath |-> filePath, backupPath |-> bPath]
    /\ UNCHANGED <<now, pc, req, originalContent, existed, backupPath>>

\* the clock moves on by a second
Tick ==
    /\ now < MaxTime
    /\ now' = now + 1
    /\ UNCHANGED <<files, pc, req, originalContent, existed, backupPath,
                   result, pre, prev, ops>>

\* no evidence has been analyzed and no suggestions have been asked for
AnalyzerIdle ==
    /\ logs = EmptyString
    /\ analyses = <<>>
    /\ top = NoResult

\* no logs have been fetched and no prompt has been built
PromptIdle ==
    /\ jobLogs = EmptyString
    /\ errorLogs = NoResult
    /\ prompt = NoResult

\* no backup has been returned and no other process has written
HistoryIdle ==
    /\ taken = <<>>
    /\ external = NoResult

\* no run of analyzeAndFix is under way
PipelineIdle ==
    /\ step = "off"
    /\ evidence = EmptyString
    /\ trail = <<>>
    /\ outcome = "none"

\* no runs have been listed
RunsIdle ==
    /\ runs = <<>>
    /\ failedRuns = NoResult

OthersIdle == HistoryIdle /\ PipelineIdle /\ RunsIdle

NoRequest == [FilePath |-> EmptyString, NewContent |-> EmptyString, ValidateYAML |-> FALSE]

\* the disk at the start: the target is absent or holds one of the contents
InitialDisks ==
    {<<>>} \cup {[p \in {TargetPath} |-> c] : c \in Contents}

Init ==
    /\ files \in InitialDisks
    /\ now = 0
    /\ pc = "idle"
    /\ req = NoRequest
    /\ originalContent = EmptyString
    /\ existed = FALSE
    /\ backupPath = EmptyString
    /\ result = NoResult
    /\ pre = <<>>
    /\ prev = NoPrev
    /\ ops = 0
    /\ raw = EmptyString
    /\ defaultTarget = EmptyString
    /\ diag = NoResult
    /\ parses = <<>>
    /\ AnalyzerIdle
    /\ PromptIdle
    /\ OthersIdle

\* the backup paths a caller may hand to Rollback: the backups on the disk
\* and one path that names no file
RollbackPaths ==
    (DOMAIN files \ Targets) \cup {BackupPathOf(TargetPath, MaxTime + 1)}

Next ==
    \/ /\ \E path \in Targets, content \in Contents, validate \in BOOLEAN :
             ApplyCall(path, content, validate)
       /\ UNCHANGED <<parseVars, analyzerVars, promptVars, otherVars>>
    \/ /\ \E ioFails \in BOOLEAN : ApplyRead(ioFails)
       /\ UNCHANGED <<parseVars, analyzerVars, promptVars, otherVars>>
    \/ /\ \E ioFails \in BOOLEAN : ApplyBackup(ioFails)
       /\ UNCHANGED <<parseVars, analyzerVars, promptVars, otherVars>>
    \/ /\ \E ioFails \in BOOLEAN : ApplyWrite(ioFails)
       /\ UNCHANGED <<parseVars, analyzerVars, promptVars, otherVars>>
    \/ /\ \E filePath \in Targets, bPath \in RollbackPaths,
             readFails \in BOOLEAN, writeFails \in BOOLEAN :
             Rollback(filePath, bPath, readFails, writeFails)
       /\ UNCHANGED <<parseVars, analyzerVars, promptVars, otherVars>>
    \/ /\ Tick
       /\ UNCHANGED <<parseVars, analyzerVars, promptVars, otherVars>>

Spec == Init /\ [][Next]_vars

\* the contents of SpecDiff: one line, a line repeated, two lines in both
\* orders, and two lines with a blank one between them
DiffContents ==
    { <<"a">>,
      <<"b", "\n", "b">>,
      <<"a", "\n", "b">>,
      <<"b", "\n", "a">>,
      <<"a", "\n", "\n", "b">> }

InitDiff ==
    /\ files \in {[p \in {TargetPath} |-> c] : c \in DiffContents}
    /\ now = 0
    /\ pc = "idle"
    /\ req = NoRequest
    /\ originalContent = EmptyString
    /\ existed = FALSE
    /\ backupPath = EmptyString
    /\ result = NoResult
    /\ pre = <<>>
    /\ prev = NoPrev
    /\ ops = 0
    /\ raw = EmptyString
    /\ defaultTarget = EmptyString
    /\ diag = NoResult
    /\ parses = <<>>
    /\ AnalyzerIdle
    /\ PromptIdle
    /\ OthersIdle

\* Apply, called on an existing target with contents of several lines
NextDiff ==
    \/ /\ \E path \in Targets, content \in DiffContents : ApplyCall(path, content, FALSE)
       /\ UNCHANGED <<parseVars, analyzerVars, promptVars, otherVars>>
    \/ /\ \E ioFails \in BOOLEAN : ApplyRead(ioFails)
       /\ UNCHANGED <<parseVars, analyzerVars, promptVars, otherVars>>
    \/ /\ \E ioFails \in BOOLEAN : ApplyBackup(ioFails)
       /\ UNCHANGED <<parseVars, analyzerVars, promptVars, otherVars>>
    \/ /\ \E ioFails \in BOOLEAN : ApplyWrite(ioFails)
       /\ UNCHANGED <<parseVars, analyzerVars, promptVars, otherVars>>

SpecDiff == InitDiff /\ [][NextDiff]_vars

----------------------------------------------------------------------------
(* pkg/copilot: the parser of the oracle's reply *)

LowerChars == <<"a", "b", "c", "d", "e", "f", "g", "h", "i", "j", "k", "l", "m", "n", "o", "p", "q", "r", "s", "t", "u", "v", "w", "x", "y", "z">>

UpperChars == <<"A", "B", "C", "D", "E", "F", "G", "H", "I", "J", "K", "L", "M", "N", "O", "P", "Q", "R", "S", "T", "U", "V", "W", "X", "Y", "Z">>

IsLetter(c) == c \in Range(LowerChars) \cup Range(UpperChars)

\* the upper-case letter of each lower-case letter
UpperOf ==
    [c \in Range(LowerChars) |->
        UpperChars[CHOOSE i \in 1..Len(LowerChars) : LowerChars[i] = c]]

\* unicode.ToUpper on one character
Upper(c) == IF c \in DOMAIN UpperOf THEN UpperOf[c] ELSE c

\* strings.ToUpper
ToUpper(s) == [i \in 1..Len(s) |-> Upper(s[i])]

\* a (?i) literal: s[i..] is p up to the case of its letters
EqualFoldAt(s, i, p) ==
    /\ i >= 1
    /\ i + Len(p) - 1 <= Len(s)
    /\ \A k \in 1..Len(p) : Upper(s[i + k - 1]) = Upper(p[k])

\* the regexp class \s
IsReSpace(c) == c \in {"\t", "\n", "\f", "\r", " "}

\* \s* from i on: the index of the first character that is no space
RECURSIVE SkipSpace(_, _)
SkipSpace(s, i) ==
    IF i <= Len(s) /\ IsReSpace(s[i]) THEN SkipSpace(s, i + 1) ELSE i

\* [^\s\n\r]+ from i on: the index after the run of non-space characters
RECURSIVE SkipNonSpace(_, _)
SkipNonSpace(s, i) ==
    IF i <= Len(s) /\ ~IsReSpace(s[i]) THEN SkipNonSpace(s, i + 1) ELSE i

\* (?i)[A-Z]+ from i on: the index after the run of letters
RECURSIVE SkipLetters(_, _)
SkipLetters(s, i) ==
    IF i <= Len(s) /\ IsLetter(s[i]) THEN SkipLetters(s, i + 1) ELSE i

Min(S) == CHOOSE x \in S : \A y \in S : x <= y

\* strings.Trim(s, cutset)
RECURSIVE TrimLeft(_, _)
TrimLeft(s, cutset) ==
    IF s # <<>> /\ Head(s) \in cutset THEN TrimLeft(Tail(s), cutset) ELSE s

RECURSIVE TrimRight(_, _)
TrimRight(s, cutset) ==
    IF s # <<>> /\ s[Len(s)] \in cutset
    THEN TrimRight(SubSeq(s, 1, Len(s) - 1), cutset) ELSE s

Trim(s, cutset) == TrimRight(TrimLeft(s, cutset), cutset)

\* strings.ReplaceAll(s, old, new) for one-character old and new
ReplaceAll(s, old, new) == [i \in 1..Len(s) |-> IF s[i] = old THEN new ELSE s[i]]

\* strings.TrimPrefix
TrimPrefix(s, p) == IF HasPrefix(s, p) THEN SubSeq(s, Len(p) + 1, Len(s)) ELSE s

\* the cutset "[]`* \"'" of both Trim calls
Decoration == {"[", "]", Backtick, "*", " ", "\"", "'"}

CanonicalDir == <<".", "g", "i", "t", "h", "u", "b", "/", "w", "o", "r", "k", "f", "l", "o", "w", "s", "/">>

S_FIX_TARGET == <<"F", "I", "X", "_", "T", "A", "R", "G", "E", "T", ":">>
S_CONFIDENCE == <<"C", "O", "N", "F", "I", "D", "E", "N", "C", "E", ":">>
S_STATUS_HEALTHY == <<"S", "T", "A", "T", "U", "S", ":", " ", "H", "E", "A", "L", "T", "H", "Y">>
S_EXPLANATION == <<"E", "X", "P", "L", "A", "N", "A", "T", "I", "O", "N", ":">>
S_FIXED_CONTENT == <<"F", "I", "X", "E", "D", "_", "C", "O", "N", "T", "E", "N", "T", ":">>
S_HEALTHY == <<"H", "E", "A", "L", "T", "H", "Y">>
S_MEDIUM == <<"M", "E", "D", "I", "U", "M">>
S_LOW == <<"L", "O", "W">>
S_HIGH == <<"H", "I", "G", "H">>
S_FENCE == <<Backtick, Backtick, Backtick>>
S_CLOSE_FENCE == <<"\n", Backtick, Backtick, Backtick>>

HealthyExplanation == <<"W", "o", "r", "k", "f", "l", "o", "w", " ", "a", "p", "p", "e", "a", "r", "s", " ", "h", "e", "a", "l", "t", "h", "y", " ", "a", "c", "c", "o", "r", "d", "i", "n", "g", " ", "t", "o", " ", "A", "I", " ", "a", "n", "a", "l", "y", "s", "i", "s">>

\* normalizeWorkflowPath without the conversion of backslashes
normalizeWorkflowPath_NoBackslash(path) ==
    LET p == Trim(path, Decoration)
    IN  IF HasPrefix(p, CanonicalDir) THEN p
        ELSE IF HasPrefix(p, <<"g", "i", "t", "h", "u", "b", "/", "w", "o", "r", "k", "f", "l", "o", "w", "s", "/">>) THEN <<".">> \o p
        ELSE IF HasPrefix(p, <<"w", "o", "r", "k", "f", "l", "o", "w", "s", "/">>) THEN <<".", "g", "i", "t", "h", "u", "b", "/">> \o p
        ELSE CanonicalDir \o TrimPrefix(p, <<"/">>)

\* normalizeWorkflowPath
normalizeWorkflowPath(path) ==
    LET p == ReplaceAll(Trim(path, Decoration), "\\", "/")
    IN  IF HasPrefix(p, CanonicalDir) THEN p
        ELSE IF HasPrefix(p, <<"g", "i", "t", "h", "u", "b", "/", "w", "o", "r", "k", "f", "l", "o", "w", "s", "/">>) THEN <<".">> \o p
        ELSE IF HasPrefix(p, <<"w", "o", "r", "k", "f", "l", "o", "w", "s", "/">>) THEN <<".", "g", "i", "t", "h", "u", "b", "/">> \o p
        ELSE CanonicalDir \o TrimPrefix(p, <<"/">>)

\* targetRe.FindStringSubmatch, (?i)FIX_TARGET:\s*([^\s\n\r]+): <<>> when
\* nothing matches, else <<match[1]>> of the leftmost match
TargetSubmatch(s) ==
    LET starts == {i \in 1..Len(s) :
                      /\ EqualFoldAt(s, i, S_FIX_TARGET)
                      /\ SkipSpace(s, i + Len(S_FIX_TARGET)) <= Len(s)}
    IN  IF starts = {} THEN <<>>
        ELSE LET j == SkipSpace(s, Min(starts) + Len(S_FIX_TARGET))
             IN  <<SubSeq(s, j, SkipNonSpace(s, j) - 1)>>

\* confidenceRe.FindStringSubmatch, (?i)CONFIDENCE:\s*([A-Z]+)
ConfidenceSubmatch(s) ==
    LET starts == {i \in 1..Len(s) :
                      /\ EqualFoldAt(s, i, S_CONFIDENCE)
                      /\ SkipSpace(s, i + Len(S_CONFIDENCE)) <= Len(s)
                      /\ IsLetter(s[SkipSpace(s, i + Len(S_CONFIDENCE))])}
    IN  IF starts = {} THEN <<>>
        ELSE LET j == SkipSpace(s, Min(starts) + Len(S_CONFIDENCE))
             IN  <<SubSeq(s, j, SkipLetters(s, j) - 1)>>

\* explanationRe.FindStringSubmatch, (?is)EXPLANATION:\s*(.+?)(?:FIXED_CONTENT:|$):
\* the greedy \s* keeps every space it can while one character is left for
\* the lazy group, which then runs to the first FIXED_CONTENT: or to the end
ExplanationSubmatch(s) ==
    LET starts == {i \in 1..Len(s) :
                      /\ EqualFoldAt(s, i, S_EXPLANATION)
                      /\ i + Len(S_EXPLANATION) <= Len(s)}
    IN  IF starts = {} THEN <<>>
        ELSE LET a == Min(starts) + Len(S_EXPLANATION)
                 w == SkipSpace(s, a)
                 b == IF w <= Len(s) THEN w ELSE Len(s)
                 ends == {e \in b..Len(s) :
                             e = Len(s) \/ EqualFoldAt(s, e + 1, S_FIXED_CONTENT)}
             IN  <<SubSeq(s, b, Min(ends))>>

\* where the text of a fenced block opened at i begins: after ```yaml\n,
\* ```yml\n or ```\n; 0 when no fence opens at i
FenceBody(s, i) ==
    IF ~HasPrefixAt(s, i, S_FENCE) THEN 0
    ELSE IF HasPrefixAt(s, i + 3, <<"y", "a", "m", "l", "\n">>) THEN i + 8
    ELSE IF HasPrefixAt(s, i + 3, <<"y", "m", "l", "\n">>) THEN i + 7
    ELSE IF HasPrefixAt(s, i + 3, <<"\n">>) THEN i + 4
    ELSE 0

\* the places from c on where a closing \n``` stands
FenceCloses(s, c) == {q \in c..Len(s) : HasPrefixAt(s, q, S_CLOSE_FENCE)}

\* yamlRe.FindStringSubmatch, (?s)```(?:yaml|yml)?\n(.*?)\n```
YamlSubmatch(s) ==
    LET starts == {i \in 1..Len(s) :
                      FenceBody(s, i) # 0 /\ FenceCloses(s, FenceBody(s, i)) # {}}
    IN  IF starts = {} THEN <<>>
        ELSE LET c == FenceBody(s, Min(starts))
             IN  <<SubSeq(s, c, Min(FenceCloses(s, c)) - 1)>>

\* parseResponse, lines 164-176: the target and the confidence
ExtractTarget(rawResponse, dflt) ==
    LET match == TargetSubmatch(rawResponse)
    IN  IF match # <<>>
        THEN normalizeWorkflowPath(Trim(match[1], Decoration))
        ELSE dflt

ExtractConfidence(rawResponse) ==
    LET match == ConfidenceSubmatch(rawResponse)
    IN  IF match # <<>> THEN ToUpper(match[1]) ELSE S_MEDIUM

\* ExtractExplanation without the fallback to the whole reply
ExtractExplanation_NoFallback(rawResponse) ==
    LET match == ExplanationSubmatch(rawResponse)
    IN  IF match # <<>> THEN TrimSpace(match[1]) ELSE EmptyString

\* parseResponse, lines 184-190: the explanation
ExtractExplanation(rawResponse) ==
    LET match == ExplanationSubmatch(rawResponse)
    IN  IF match # <<>> THEN TrimSpace(match[1]) ELSE rawResponse

ExtractFixedContent(rawResponse) ==
    LET match == YamlSubmatch(rawResponse)
    IN  IF match # <<>> THEN TrimSpace(match[1]) ELSE EmptyString

ParseError ==
    [err |-> "validation", errOp |-> "parse_copilot_response"]

\* parseResponse without the early return for a healthy reply
parseResponse_NoShortCircuit(rawResponse, dflt) ==
    LET target == ExtractTarget(rawResponse, dflt)
        confidence == ExtractConfidence(rawResponse)
        fixed == ExtractFixedContent(rawResponse)
    IN  IF fixed = EmptyString /\ confidence # S_HEALTHY
        THEN ParseError
        ELSE [err |-> "none", TargetFile |-> target, Confidence |-> confidence,
              Explanation |-> ExtractExplanation(rawResponse),
              FixedContent |-> fixed]

\* parseResponse on a Client that remembers the target it resolved last and
\* uses it as the default of the next parse
parseResponse_Sticky(rawResponse, dflt) ==
    LET last == IF parses # <<>> THEN parses[Len(parses)].diag ELSE ParseError
        target == ExtractTarget(rawResponse,
                      IF last.err = "none" THEN last.TargetFile ELSE dflt)
        confidence == ExtractConfidence(rawResponse)
        fixed == ExtractFixedContent(rawResponse)
    IN  IF \/ confidence = S_HEALTHY
           \/ Contains(ToUpper(rawResponse), S_STATUS_HEALTHY)
        THEN [err |-> "none", TargetFile |-> target, Confidence |-> confidence,
              Explanation |-> HealthyExplanation, FixedContent |-> EmptyString]
        ELSE IF fixed = EmptyString /\ confidence # S_HEALTHY
        THEN ParseError
        ELSE [err |-> "none", TargetFile |-> target, Confidence |-> confidence,
              Explanation |-> ExtractExplanation(rawResponse),
              FixedContent |-> fixed]

\* parseResponse
parseResponse(rawResponse, dflt) ==
    LET target == ExtractTarget(rawResponse, dflt)
        confidence == ExtractConfidence(rawResponse)
        fixed == ExtractFixedContent(rawResponse)
    IN  IF \/ confidence = S_HEALTHY
           \/ Contains(ToUpper(rawResponse), S_STATUS_HEALTHY)
        THEN [err |-> "none", TargetFile |-> target, Confidence |-> confidence,
              Explanation |-> HealthyExplanation, FixedContent |-> EmptyString]
        ELSE IF fixed = EmptyString /\ confidence # S_HEALTHY
        THEN ParseError
        ELSE [err |-> "none", TargetFile |-> target, Confidence |-> confidence,
              Explanation |-> ExtractExplanation(rawResponse),
              FixedContent |-> fixed]

\* DiagnoseAndFix, lines 75-79: the reply is parsed, once
ParseReply ==
    /\ diag = NoResult
    /\ diag' = [op |-> "parse"] @@ parseResponse(raw, defaultTarget)
    /\ UNCHANGED <<raw, defaultTarget, parses>>

\* the path of the workflow the user selected
SelectedPath == <<".", "g", "i", "t", "h", "u", "b", "/", "w", "o", "r", "k", "f", "l", "o", "w", "s", "/", "w", ".", "y", "m", "l">>

\* the pieces an oracle's reply is made of
Segments ==
    { <<"F", "I", "X", "_", "T", "A", "R", "G", "E", "T", ":", " ", "c", "i", ".", "y", "m", "l", "\n">>,
      <<"C", "O", "N", "F", "I", "D", "E", "N", "C", "E", ":", " ", "H", "E", "A", "L", "T", "H", "Y", "\n">>,
      <<"C", "O", "N", "F", "I", "D", "E", "N", "C", "E", ":", " ", "h", "i", "g", "h", "\n">>,
      <<"C", "O", "N", "F", "I", "D", "E", "N", "C", "E", ":", " ", "V", "e", "r", "y", " ", "h", "i", "g", "h", "\n">>,
      <<"C", "O", "N", "F", "I", "D", "E", "N", "C", "E", ":", " ", "[", "H", "I", "G", "H", "]", "\n">>,
      <<"S", "T", "A", "T", "U", "S", ":", " ", "H", "E", "A", "L", "T", "H", "Y", "\n">>,
      <<"E", "X", "P", "L", "A", "N", "A", "T", "I", "O", "N", ":", " ", "e", "\n">>,
      <<"F", "I", "X", "E", "D", "_", "C", "O", "N", "T", "E", "N", "T", ":", "\n">>,
      <<Backtick, Backtick, Backtick, "y", "a", "m", "l", "\n", "o", "n", ":", "\n", Backtick, Backtick, Backtick, "\n">>,
      <<Backtick, Backtick, Backtick, "\n", " ", "\n", Backtick, Backtick, Backtick, "\n">> }

\* at most MaxSegs pieces make a reply
MaxSegs == 3

RECURSIVE Concat(_)
Concat(ss) == IF ss = <<>> THEN <<>> ELSE Head(ss) \o Concat(Tail(ss))

SeqsUpTo(S, n) == UNION {[1..k -> S] : k \in 0..n}

Replies == {Concat(ss) : ss \in SeqsUpTo(Segments, MaxSegs)}

PatchIdle ==
    /\ files = <<>>
    /\ now = 0
    /\ pc = "idle"
    /\ req = NoRequest
    /\ originalContent = EmptyString
    /\ existed = FALSE
    /\ backupPath = EmptyString
    /\ result = NoResult
    /\ pre = <<>>
    /\ prev = NoPrev
    /\ ops = 0

InitParse ==
    /\ PatchIdle
    /\ raw \in Replies
    /\ defaultTarget = SelectedPath
    /\ diag = NoResult
    /\ parses = <<>>
    /\ AnalyzerIdle
    /\ PromptIdle
    /\ OthersIdle

NextParse == ParseReply /\ UNCHANGED <<patchVars, analyzerVars, promptVars, otherVars>>

SpecParse == InitParse /\ [][NextParse]_vars

\* the FIX_TARGET tokens of the replies of SpecTarget: a way the path starts,
\* then up to MaxNameLen more characters, wrapped or not in decoration
TokenStarts ==
    { <<>>, <<"/">>, <<"\\">>, <<".", ".", "/">>,
      CanonicalDir, <<"g", "i", "t", "h", "u", "b", "/", "w", "o", "r", "k", "f", "l", "o", "w", "s", "/">>, <<"w", "o", "r", "k", "f", "l", "o", "w", "s", "/">>, <<".", "g", "i", "t", "h", "u", "b", "/">>,
      <<".", "g", "i", "t", "h", "u", "b", "\\", "w", "o", "r", "k", "f", "l", "o", "w", "s", "\\">>,
      <<"g", "i", "t", "h", "u", "b", "\\", "w", "o", "r", "k", "f", "l", "o", "w", "s", "\\">>,
      <<"w", "o", "r", "k", "f", "l", "o", "w", "s", "\\">> }

NameChars == {"a", "/", "\\", "."}

MaxNameLen == 2

Wrappers == {<<>>, <<Backtick>>, <<"*", "*">>, <<"\"">>}

TargetReplies ==
    { S_FIX_TARGET \o <<" ">> \o wrap \o start \o name \o wrap \o <<"\n">>
          \o <<Backtick, Backtick, Backtick, "y", "a", "m", "l", "\n", "o", "n", ":", "\n", Backtick, Backtick, Backtick, "\n">> :
        wrap \in Wrappers, start \in TokenStarts,
        name \in SeqsUpTo(NameChars, MaxNameLen) }

InitTarget ==
    /\ PatchIdle
    /\ raw \in TargetReplies
    /\ defaultTarget = SelectedPath
    /\ diag = NoResult
    /\ parses = <<>>
    /\ AnalyzerIdle
    /\ PromptIdle
    /\ OthersIdle

SpecTarget == InitTarget /\ [][NextParse]_vars

\* the path of another workflow of the repository
OtherPath == <<".", "g", "i", "t", "h", "u", "b", "/", "w", "o", "r", "k", "f", "l", "o", "w", "s", "/", "c", "i", ".", "y", "m", "l">>

\* the replies of SpecReparse: a fix with and without a target, a healthy
\* reply and a reply without a fix
ReparseReplies ==
    { <<Backtick, Backtick, Backtick, "y", "a", "m", "l", "\n", "o", "n", ":", "\n", Backtick, Backtick, Backtick, "\n">>,
      <<"F", "I", "X", "_", "T", "A", "R", "G", "E", "T", ":", " ", "c", ".", "y", "m", "l", "\n">>
          \o <<Backtick, Backtick, Backtick, "y", "a", "m", "l", "\n", "o", "n", ":", "\n", Backtick, Backtick, Backtick, "\n">>,
      <<"C", "O", "N", "F", "I", "D", "E", "N", "C", "E", ":", " ", "H", "E", "A", "L", "T", "H", "Y", "\n">>,
      <<"E", "X", "P", "L", "A", "N", "A", "T", "I", "O", "N", ":", " ", "e", "\n">> }

\* at most MaxParses earlier parses are kept
MaxParses == 2

\* DiagnoseAndFix, lines 52-72, called again on the same Client: the next
\* reply of the oracle arrives, for the workflow selected then
NextRequest(r, d) ==
    /\ diag # NoResult
    /\ Len(parses) < MaxParses
    /\ parses' = Append(parses, [raw |-> raw, defaultTarget |-> defaultTarget,
                                  diag |-> diag])
    /\ raw' = r
    /\ defaultTarget' = d
    /\ diag' = NoResult

InitReparse ==
    /\ PatchIdle
    /\ raw \in ReparseReplies
    /\ defaultTarget \in {SelectedPath, OtherPath}
    /\ diag = NoResult
    /\ parses = <<>>
    /\ AnalyzerIdle
    /\ PromptIdle
    /\ OthersIdle

NextReparse ==
    \/ /\ ParseReply
       /\ UNCHANGED <<patchVars, analyzerVars, promptVars, otherVars>>
    \/ /\ \E r \in ReparseReplies, d \in {SelectedPath, OtherPath} : NextRequest(r, d)
       /\ UNCHANGED <<patchVars, analyzerVars, promptVars, otherVars>>

SpecReparse == InitReparse /\ [][NextReparse]_vars

----------------------------------------------------------------------------
(* pkg/github and pkg/copilot: the evidence that reaches the prompt *)

\* Default().MaxLogSize, scaled down from 6000; Validate() keeps it positive
MaxLogSize == 3

\* the logs served are at most MaxExcess longer than the budget
MaxExcess == 2

\* "... [LOGS TRUNCATED FOR SAFETY] ...\n"
LogsTruncatedMarker == <<".", ".", ".", " ", "[", "L", "O", "G", "S", " ", "T", "R", "U", "N", "C", "A", "T", "E", "D", " ", "F", "O", "R", " ", "S", "A", "F", "E", "T", "Y", "]", " ", ".", ".", ".", "\n">>

\* "... [Truncated for buffer safety] ...\n"
TruncatedMarker == <<".", ".", ".", " ", "[", "T", "r", "u", "n", "c", "a", "t", "e", "d", " ", "f", "o", "r", " ", "b", "u", "f", "f", "e", "r", " ", "s", "a", "f", "e", "t", "y", "]", " ", ".", ".", ".", "\n">>

\* s[len(s)-n:] taking the first n elements instead
LastBytes_Head(s, n) == SubSeq(s, 1, n)

\* s[len(s)-n:]
LastBytes(s, n) == SubSeq(s, Len(s) - n + 1, Len(s))

\* GetWorkflowJobLogs, lines 240-257: no failed job gives a ValidationError;
\* else the logs gathered are returned, cut to their tail when they are
\* longer than the budget
GetWorkflowJobLogs(noFailedJob) ==
    /\ errorLogs = NoResult
    /\ errorLogs' =
          IF noFailedJob
          THEN [op |-> "GetWorkflowJobLogs", err |-> "validation"]
          ELSE [op |-> "GetWorkflowJobLogs", err |-> "none",
                logs |-> IF Len(jobLogs) > MaxLogSize
                         THEN LogsTruncatedMarker \o LastBytes(jobLogs, MaxLogSize)
                         ELSE jobLogs]
    /\ UNCHANGED <<jobLogs, prompt>>

\* DiagnoseAndFix, lines 55-63, and buildDiagnosisPrompt, line 90: the
\* evidence is cut to its tail when it is longer than the budget, and its
\* double quotes become single quotes in the prompt
BuildPrompt ==
    /\ errorLogs.op = "GetWorkflowJobLogs"
    /\ errorLogs.err = "none"
    /\ prompt = NoResult
    /\ LET l == IF Len(errorLogs.logs) > MaxLogSize
                THEN TruncatedMarker \o LastBytes(errorLogs.logs, MaxLogSize)
                ELSE errorLogs.logs
       IN  prompt' = [op |-> "DiagnoseAndFix", logs |-> l,
                      safeErrorLogs |-> ReplaceAll(l, "\"", "'")]
    /\ UNCHANGED <<jobLogs, errorLogs>>

\* the characters of the logs of a job
LogChars == {"a", "b", "\""}

\* logBuilder.String(): the logs of the failed jobs, each followed by \n
JobLogs == {body \o <<"\n">> : body \in SeqsUpTo(LogChars, MaxLogSize + MaxExcess - 1)}

\* no reply has been parsed
ParseIdle ==
    /\ raw = EmptyString
    /\ defaultTarget = EmptyString
    /\ diag = NoResult
    /\ parses = <<>>

InitPrompt ==
    /\ PatchIdle
    /\ ParseIdle
    /\ AnalyzerIdle
    /\ jobLogs \in JobLogs
    /\ errorLogs = NoResult
    /\ prompt = NoResult
    /\ OthersIdle

NextPrompt ==
    \/ /\ \E noFailedJob \in BOOLEAN : GetWorkflowJobLogs(noFailedJob)
       /\ UNCHANGED <<patchVars, parseVars, analyzerVars, otherVars>>
    \/ /\ BuildPrompt
       /\ UNCHANGED <<patchVars, parseVars, analyzerVars, otherVars>>

SpecPrompt == InitPrompt /\ [][NextPrompt]_vars

----------------------------------------------------------------------------
(* internal/analyzer: the signature catalog and the log analysis *)

\* the characters U+00E2 and U+0152 of the Test Failure signature
CharACircumflex == "U+00E2"

CharOELigature == "U+0152"

\* the regexp classes \d and [\w-]
IsDigit(c) == c \in Range(Digits)

IsWordOrDash(c) == IsLetter(c) \/ IsDigit(c) \/ c \in {"_", "-"}

\* A regexp is run on the set of positions a match may have reached: I holds
\* indexes into s, Len(s)+1 standing for the end.
\* a (?i) literal p
ReLit(s, I, p) == {i + Len(p) : i \in {j \in I : EqualFoldAt(s, j, p)}}

\* an optional (?i) literal p
ReOpt(s, I, p) == I \cup ReLit(s, I, p)

\* \d+
ReDigits(s, I) ==
    {k \in 1..(Len(s) + 1) :
        \E i \in I : i < k /\ \A m \in i..(k - 1) : IsDigit(s[m])}

\* [\w-]+
ReWord(s, I) ==
    {k \in 1..(Len(s) + 1) :
        \E i \in I : i < k /\ \A m \in i..(k - 1) : IsWordOrDash(s[m])}

\* .* (the dot matches every character but \n)
ReAny(s, I) ==
    {k \in 1..(Len(s) + 1) :
        \E i \in I : i <= k /\ \A m \in i..(k - 1) : s[m] # "\n"}

\* a match may start anywhere
AnyStart(s) == 1..(Len(s) + 1)

\* (?i)Node\.js \d+ actions? (?:are|is) deprecated
MatchNodeDeprecated(line) ==
    LET a == ReOpt(line, ReLit(line, ReDigits(line, ReLit(line, AnyStart(line), <<"N", "o", "d", "e", ".", "j", "s", " ">>)), <<" ", "a", "c", "t", "i", "o", "n">>), <<"s">>)
        b == ReLit(line, a, <<" ">>)
        c == ReLit(line, b, <<"a", "r", "e">>) \cup ReLit(line, b, <<"i", "s">>)
    IN  ReLit(line, c, <<" ", "d", "e", "p", "r", "e", "c", "a", "t", "e", "d">>) # {}

\* (?i)(?:command not found|command '[\w-]+' not found|bash: [\w-]+: command not found)
MatchCommandNotFound(line) ==
    \/ ReLit(line, AnyStart(line), <<"c", "o", "m", "m", "a", "n", "d", " ", "n", "o", "t", " ", "f", "o", "u", "n", "d">>) # {}
    \/ ReLit(line, ReWord(line, ReLit(line, AnyStart(line), <<"c", "o", "m", "m", "a", "n", "d", " ", "'">>)), <<"'", " ", "n", "o", "t", " ", "f", "o", "u", "n", "d">>) # {}
    \/ ReLit(line, ReWord(line, ReLit(line, AnyStart(line), <<"b", "a", "s", "h", ":", " ">>)), <<":", " ", "c", "o", "m", "m", "a", "n", "d", " ", "n", "o", "t", " ", "f", "o", "u", "n", "d">>) # {}

\* (?i)ModuleNotFoundError:|ImportError:|No module named
MatchPythonImport(line) ==
    \/ ReLit(line, AnyStart(line), <<"M", "o", "d", "u", "l", "e", "N", "o", "t", "F", "o", "u", "n", "d", "E", "r", "r", "o", "r", ":">>) # {}
    \/ ReLit(line, AnyStart(line), <<"I", "m", "p", "o", "r", "t", "E", "r", "r", "o", "r", ":">>) # {}
    \/ ReLit(line, AnyStart(line), <<"N", "o", " ", "m", "o", "d", "u", "l", "e", " ", "n", "a", "m", "e", "d">>) # {}

\* (?i)npm ERR!|npm install failed|ENOENT.*package\.json
MatchNpmInstall(line) ==
    \/ ReLit(line, AnyStart(line), <<"n", "p", "m", " ", "E", "R", "R", "!">>) # {}
    \/ ReLit(line, AnyStart(line), <<"n", "p", "m", " ", "i", "n", "s", "t", "a", "l", "l", " ", "f", "a", "i", "l", "e", "d">>) # {}
    \/ ReLit(line, ReAny(line, ReLit(line, AnyStart(line), <<"E", "N", "O", "E", "N", "T">>)), <<"p", "a", "c", "k", "a", "g", "e", ".", "j", "s", "o", "n">>) # {}

\* (?i)yaml.*syntax error|invalid yaml|mapping values are not allowed
MatchYamlSyntax(line) ==
    \/ ReLit(line, ReAny(line, ReLit(line, AnyStart(line), <<"y", "a", "m", "l">>)), <<"s", "y", "n", "t", "a", "x", " ", "e", "r", "r", "o", "r">>) # {}
    \/ ReLit(line, AnyStart(line), <<"i", "n", "v", "a", "l", "i", "d", " ", "y", "a", "m", "l">>) # {}
    \/ ReLit(line, AnyStart(line), <<"m", "a", "p", "p", "i", "n", "g", " ", "v", "a", "l", "u", "e", "s", " ", "a", "r", "e", " ", "n", "o", "t", " ", "a", "l", "l", "o", "w", "e", "d">>) # {}

\* (?i)permission denied|EACCES
MatchPermissionDenied(line) ==
    \/ ReLit(line, AnyStart(line), <<"p", "e", "r", "m", "i", "s", "s", "i", "o", "n", " ", "d", "e", "n", "i", "e", "d">>) # {}
    \/ ReLit(line, AnyStart(line), <<"E", "A", "C", "C", "E", "S">>) # {}

\* (?i)docker build.*failed|ERROR \[.*\]|failed to solve
MatchDockerBuild(line) ==
    \/ ReLit(line, ReAny(line, ReLit(line, AnyStart(line), <<"d", "o", "c", "k", "e", "r", " ", "b", "u", "i", "l", "d">>)), <<"f", "a", "i", "l", "e", "d">>) # {}
    \/ ReLit(line, ReAny(line, ReLit(line, AnyStart(line), <<"E", "R", "R", "O", "R", " ", "[">>)), <<"]">>) # {}
    \/ ReLit(line, AnyStart(line), <<"f", "a", "i", "l", "e", "d", " ", "t", "o", " ", "s", "o", "l", "v", "e">>) # {}

\* (?i)test.*failed|FAIL:|<U+00E2><U+0152>.*test|\d+ failed,
MatchTestFailure(line) ==
    \/ ReLit(line, ReAny(line, ReLit(line, AnyStart(line), <<"t", "e", "s", "t">>)), <<"f", "a", "i", "l", "e", "d">>) # {}
    \/ ReLit(line, AnyStart(line), <<"F", "A", "I", "L", ":">>) # {}
    \/ ReLit(line, ReAny(line, ReLit(line, AnyStart(line), <<CharACircumflex, CharOELigature>>)), <<"t", "e", "s", "t">>) # {}
    \/ ReLit(line, ReDigits(line, AnyStart(line)), <<" ", "f", "a", "i", "l", "e", "d", ",">>) # {}

\* (?i)exit(?:ed)? (?:with )?code \d+|Process completed with exit code \d+
MatchExitCode(line) ==
    \/ ReDigits(line, ReLit(line, ReOpt(line, ReLit(line, ReOpt(line, ReLit(line, AnyStart(line), <<"e", "x", "i", "t">>), <<"e", "d">>), <<" ">>), <<"w", "i", "t", "h", " ">>), <<"c", "o", "d", "e", " ">>)) # {}
    \/ ReDigits(line, ReLit(line, AnyStart(line), <<"P", "r", "o", "c", "e", "s", "s", " ", "c", "o", "m", "p", "l", "e", "t", "e", "d", " ", "w", "i", "t", "h", " ", "e", "x", "i", "t", " ", "c", "o", "d", "e", " ">>)) # {}

\* (?i)unexpected value|unexpected symbol|Required property is missing
MatchActionsSyntax(line) ==
    \/ ReLit(line, AnyStart(line), <<"u", "n", "e", "x", "p", "e", "c", "t", "e", "d", " ", "v", "a", "l", "u", "e">>) # {}
    \/ ReLit(line, AnyStart(line), <<"u", "n", "e", "x", "p", "e", "c", "t", "e", "d", " ", "s", "y", "m", "b", "o", "l">>) # {}
    \/ ReLit(line, AnyStart(line), <<"R", "e", "q", "u", "i", "r", "e", "d", " ", "p", "r", "o", "p", "e", "r", "t", "y", " ", "i", "s", " ", "m", "i", "s", "s", "i", "n", "g">>) # {}

\* the categories of the catalog
C_deprecation == <<"d", "e", "p", "r", "e", "c", "a", "t", "i", "o", "n">>
C_dependency == <<"d", "e", "p", "e", "n", "d", "e", "n", "c", "y">>
C_syntax == <<"s", "y", "n", "t", "a", "x">>
C_permissions == <<"p", "e", "r", "m", "i", "s", "s", "i", "o", "n", "s">>
C_docker == <<"d", "o", "c", "k", "e", "r">>
C_testing == <<"t", "e", "s", "t", "i", "n", "g">>
C_exit_code == <<"e", "x", "i", "t", "_", "c", "o", "d", "e">>

\* errorPatterns: the catalog, in its order; the regexp of entry k is
\* PatternMatches(k, _)
errorPatterns ==
    << [Name |-> "Node.js Version Deprecated", Severity |-> "HIGH",
        Suggestion |-> "Update to a newer Node.js version in your workflow",
        Category |-> C_deprecation],
       [Name |-> "Command Not Found", Severity |-> "HIGH",
        Suggestion |-> "Install the missing command or check PATH configuration",
        Category |-> C_dependency],
       [Name |-> "Python Import Error", Severity |-> "HIGH",
        Suggestion |-> "Install missing Python dependencies or check requirements.txt",
        Category |-> C_dependency],
       [Name |-> "NPM Install Failed", Severity |-> "HIGH",
        Suggestion |-> "Check package.json or run npm install locally first",
        Category |-> C_dependency],
       [Name |-> "YAML Syntax Error", Severity |-> "CRITICAL",
        Suggestion |-> "Fix YAML indentation or syntax errors",
        Category |-> C_syntax],
       [Name |-> "Permission Denied", Severity |-> "MEDIUM",
        Suggestion |-> "Add execute permissions or check file ownership",
        Category |-> C_permissions],
       [Name |-> "Docker Build Failed", Severity |-> "HIGH",
        Suggestion |-> "Check Dockerfile syntax and build context",
        Category |-> C_docker],
       [Name |-> "Test Failure", Severity |-> "MEDIUM",
        Suggestion |-> "Review test results and fix failing tests",
        Category |-> C_testing],
       [Name |-> "Exit Code Non-Zero", Severity |-> "HIGH",
        Suggestion |-> "Check the command output above for the actual error",
        Category |-> C_exit_code],
       [Name |-> "GitHub Actions Syntax", Severity |-> "CRITICAL",
        Suggestion |-> "Fix workflow YAML syntax according to GitHub Actions schema",
        Category |-> C_syntax] >>

\* pattern.Pattern.MatchString(line) for entry k of the catalog
PatternMatches(k, line) ==
    CASE k = 1 -> MatchNodeDeprecated(line)
      [] k = 2 -> MatchCommandNotFound(line)
      [] k = 3 -> MatchPythonImport(line)
      [] k = 4 -> MatchNpmInstall(line)
      [] k = 5 -> MatchYamlSyntax(line)
      [] k = 6 -> MatchPermissionDenied(line)
      [] k = 7 -> MatchDockerBuild(line)
      [] k = 8 -> MatchTestFailure(line)
      [] k = 9 -> MatchExitCode(line)
      [] k = 10 -> MatchActionsSyntax(line)

\* one finding: the DetectedError appended for a match of entry k on line i
Finding(line, i, k) ==
    [Pattern |-> errorPatterns[k].Name, Message |-> TrimSpace(line), Line |-> i,
     Severity |-> errorPatterns[k].Severity,
     Suggestion |-> errorPatterns[k].Suggestion,
     Category |-> errorPatterns[k].Category]

\* the inner loop of AnalyzeLogs leaving the line at its first match
RECURSIVE MatchLine_FirstOnly(_, _, _)
MatchLine_FirstOnly(line, i, k) ==
    IF k > Len(errorPatterns) THEN <<>>
    ELSE IF PatternMatches(k, line) THEN <<Finding(line, i, k)>>
    ELSE MatchLine_FirstOnly(line, i, k + 1)

\* AnalyzeLogs, lines 205-217: the inner loop, over the catalog from entry k
RECURSIVE MatchLine(_, _, _)
MatchLine(line, i, k) ==
    IF k > Len(errorPatterns) THEN <<>>
    ELSE (IF PatternMatches(k, line) THEN <<Finding(line, i, k)>> ELSE <<>>)
             \o MatchLine(line, i, k + 1)

\* AnalyzeLogs, lines 204-218: the outer loop, over the lines from line i
RECURSIVE MatchLines(_, _)
MatchLines(lines, i) ==
    IF i > Len(lines) THEN <<>>
    ELSE MatchLine(lines[i], i, 1) \o MatchLines(lines, i + 1)

\* fmt's %d of a natural number
RECURSIVE FormatInt(_)
FormatInt(n) ==
    IF n < 10 THEN <<Digits[n + 1]>>
    ELSE FormatInt(n \div 10) \o <<Digits[(n % 10) + 1]>>

\* strings.Join
RECURSIVE Join(_, _)
Join(parts, sep) ==
    IF parts = <<>> THEN <<>>
    ELSE IF Len(parts) = 1 THEN parts[1]
    ELSE parts[1] \o sep \o Join(Tail(parts), sep)

\* the keys of the map categories
CategoriesOf(errors) == {errors[i].Category : i \in 1..Len(errors)}

\* the orders in which a range over a map with the keys S may visit them: Go
\* leaves the order unspecified and randomizes it
Orders(S) ==
    {f \in [1..Cardinality(S) -> S] :
        \A i \in 1..Cardinality(S), j \in 1..Cardinality(S) : i # j => f[i] # f[j]}

\* generateSummary, with the order in which the map categories is visited
generateSummary(errors, order) ==
    IF Len(errors) = 0 THEN <<"N", "o", " ", "e", "r", "r", "o", "r", "s", " ", "d", "e", "t", "e", "c", "t", "e", "d">>
    ELSE LET count(cat) == Cardinality({i \in 1..Len(errors) : errors[i].Category = cat})
             part(cat) == IF count(cat) = 1 THEN cat
                          ELSE FormatInt(count(cat)) \o <<" ">> \o cat \o <<" ", "e", "r", "r", "o", "r", "s">>
             parts == [i \in 1..Len(order) |-> part(order[i])]
         IN  <<"F", "o", "u", "n", "d", ":", " ">> \o Join(parts, <<",", " ">>)

\* calculateConfidence looking at the number of findings first
calculateConfidence_CountFirst(errors) ==
    IF Len(errors) = 0 THEN "0.3"
    ELSE IF Len(errors) > 3 THEN "0.8"
    ELSE IF \E i \in 1..Len(errors) : errors[i].Severity = "CRITICAL" THEN "0.9"
    ELSE "0.6"

\* calculateConfidence with the threshold one too low
calculateConfidence_FromThree(errors) ==
    IF Len(errors) = 0 THEN "0.3"
    ELSE IF \E i \in 1..Len(errors) : errors[i].Severity = "CRITICAL" THEN "0.9"
    ELSE IF Len(errors) > 2 THEN "0.8"
    ELSE "0.6"

\* calculateConfidence; the float64 results are written as their literals
calculateConfidence(errors) ==
    IF Len(errors) = 0 THEN "0.3"
    ELSE LET criticalCount == Cardinality({i \in 1..Len(errors) :
                                              errors[i].Severity = "CRITICAL"})
         IN  IF criticalCount > 0 THEN "0.9"
             ELSE IF Len(errors) > 3 THEN "0.8"
             ELSE "0.6"

\* AnalyzeLogs, lines 220-231: the Analysis returned for the findings, when
\* the map of generateSummary is visited in the given order
Analyze(errors, order) ==
    IF Len(errors) > 0
    THEN [Errors |-> errors, Warnings |-> <<>>,
          Category |-> errors[1].Category,
          Summary |-> generateSummary(errors, order),
          Confidence |-> calculateConfidence(errors)]
    ELSE [Errors |-> errors, Warnings |-> <<>>,
          Category |-> EmptyString,
          Summary |-> <<"N", "o", " ", "s", "p", "e", "c", "i", "f", "i", "c", " ", "e", "r", "r", "o", "r", " ", "p", "a", "t", "t", "e", "r", "n", "s", " ", "d", "e", "t", "e", "c", "t", "e", "d">>,
          Confidence |-> "0.3"]

\* the loop of GetTopSuggestions from finding i on, with its break
RECURSIVE TopFrom(_, _, _, _, _)
TopFrom(errors, i, seen, suggestions, limit) ==
    IF i > Len(errors) THEN suggestions
    ELSE IF errors[i].Suggestion \notin seen /\ errors[i].Suggestion # ""
    THEN LET more == Append(suggestions, errors[i].Suggestion)
         IN  IF Len(more) >= limit THEN more
             ELSE TopFrom(errors, i + 1, seen \cup {errors[i].Suggestion}, more, limit)
    ELSE TopFrom(errors, i + 1, seen, suggestions, limit)

\* GetTopSuggestions
GetTopSuggestions(analysis, limit) ==
    IF Len(analysis.Errors) = 0 THEN <<>>
    ELSE TopFrom(analysis.Errors, 1, {}, <<>>, limit)

\* at most MaxAnalyses calls of AnalyzeLogs are made on the evidence
MaxAnalyses == 2

\* the limits handed to GetTopSuggestions are -1..MaxLimit
MaxLimit == 3

\* the evidence has at most MaxLines lines
MaxLines == 3

\* a call of AnalyzeLogs on the evidence
AnalyzeLogs ==
    /\ top = NoResult
    /\ Len(analyses) < MaxAnalyses
    /\ LET errors == MatchLines(Split(logs, "\n"), 1)
       IN  \E order \in Orders(CategoriesOf(errors)) :
              analyses' = Append(analyses, Analyze(errors, order))
    /\ UNCHANGED <<logs, top>>

\* a call of GetTopSuggestions on the Analysis returned last
TopSuggestions(limit) ==
    /\ analyses # <<>>
    /\ top = NoResult
    /\ top' = [op |-> "GetTopSuggestions", limit |-> limit,
                analysis |-> analyses[Len(analyses)],
                suggestions |-> GetTopSuggestions(analyses[Len(analyses)], limit)]
    /\ UNCHANGED <<logs, analyses>>

\* the lines the evidence is made of: two signatures of one category on one
\* line, a CRITICAL one inside white space, one of the two signatures alone,
\* and a line that matches nothing
LogLines ==
    { <<"n", "p", "m", " ", "E", "R", "R", "!", " ", "I", "m", "p", "o", "r", "t", "E", "r", "r", "o", "r", ":">>,
      <<" ", "i", "n", "v", "a", "l", "i", "d", " ", "y", "a", "m", "l", "\r">>,
      <<"n", "p", "m", " ", "E", "R", "R", "!">>,
      <<"o", "k">> }

\* the evidence: up to MaxLines lines, joined by \n
Evidence == {Join(ls, <<"\n">>) : ls \in SeqsUpTo(LogLines, MaxLines)}

InitAnalyzer ==
    /\ PatchIdle
    /\ ParseIdle
    /\ PromptIdle
    /\ logs \in Evidence
    /\ analyses = <<>>
    /\ top = NoResult
    /\ OthersIdle

NextAnalyzer ==
    \/ /\ AnalyzeLogs
       /\ UNCHANGED <<patchVars, parseVars, promptVars, otherVars>>
    \/ /\ \E limit \in (-1)..MaxLimit : TopSuggestions(limit)
       /\ UNCHANGED <<patchVars, parseVars, promptVars, otherVars>>

SpecAnalyzer == InitAnalyzer /\ [][NextAnalyzer]_vars

----------------------------------------------------------------------------
(* The patch engine's contract *)

\* the running or the last call was an Apply that has returned
ApplyReturned == pc = "idle" /\ result.op = "Apply"

ApplySucceeded == ApplyReturned /\ result.err = "none"

ApplyFailed == ApplyReturned /\ result.err \in {"validation", "filesystem"}

\* path holds on disk b what it held on disk a, or is absent from both
SameAt(a, b, path) ==
    /\ (path \in DOMAIN a) = (path \in DOMAIN b)
    /\ path \in DOMAIN a => a[path] = b[path]

\* C1: after an Apply that returned success the target holds exactly the
\* requested content, and if the target existed before the call the
\* returned BackupPath names a file that holds the target's content of
\* before the call.
C1_ApplySuccess ==
    ApplySucceeded =>
        /\ req.FilePath \in DOMAIN files
        /\ files[req.FilePath] = req.NewContent
        /\ req.FilePath \in DOMAIN pre =>
              /\ result.BackupPath \in DOMAIN files
              /\ files[result.BackupPath] = pre[req.FilePath]

\* an Apply succeeded over a target that held other content
C1_Witness ==
    /\ ApplySucceeded
    /\ req.FilePath \in DOMAIN pre
    /\ pre[req.FilePath] # req.NewContent
    /\ pre[req.FilePath] # EmptyString
    /\ result.BackupPath \in DOMAIN files

\* the last call was a successful Rollback to the backup that the
\* successful Apply right before it returned
RolledBackLastApply ==
    /\ pc = "idle"
    /\ result.op = "Rollback"
    /\ result.err = "none"
    /\ prev.result.op = "Apply"
    /\ prev.result.err = "none"
    /\ prev.result.BackupPath # EmptyString
    /\ result.backupPath = prev.result.BackupPath
    /\ result.filePath = req.FilePath

\* C2: a successful Apply(path, C) that took a backup, followed by a
\* Rollback(path, result.BackupPath), leaves the target holding exactly the
\* content P it held before the Apply.
C2_RoundTrip ==
    RolledBackLastApply =>
        /\ req.FilePath \in DOMAIN files
        /\ files[req.FilePath] = prev.pre[req.FilePath]

\* a round trip over a target whose prior content differed from the patch
C2_Witness ==
    /\ RolledBackLastApply
    /\ prev.pre[req.FilePath] # req.NewContent
    /\ prev.pre[req.FilePath] # EmptyString
    /\ pre[req.FilePath] = req.NewContent

\* C3: in an Apply on an existing target with backups enabled the target is
\* overwritten only once the backup holds the content read, no step before
\* the write touches the target, and a failed backup write ends the call
\* with a filesystem error and the target as it was.
C3_BackupBeforeOverwrite ==
    [][ /\ (pc = "write" /\ existed /\ BackupEnabled
               /\ ~SameAt(files, files', req.FilePath)) =>
              /\ backupPath # EmptyString
              /\ backupPath \in DOMAIN files
              /\ files[backupPath] = originalContent
        /\ pc \in {"read", "backup"} => SameAt(files, files', req.FilePath)
        /\ (pc = "backup" /\ pc' # "backup" /\ backupPath' = EmptyString) =>
              /\ pc' = "idle"
              /\ result'.err = "filesystem"
              /\ result'.errOp = "create_backup"
              /\ SameAt(pre, files', req.FilePath)
      ]_vars

\* the backup is written and the target is still to be overwritten
C3_Witness ==
    /\ pc = "write"
    /\ existed
    /\ backupPath \in DOMAIN files
    /\ files[backupPath] = originalContent
    /\ files[req.FilePath] = originalContent
    /\ originalContent # req.NewContent

\* C4 as claimed: whenever Apply returns an error, whichever it is, the
\* target is as it was before the call.
C4_ErrorLeavesTarget ==
    ApplyFailed => SameAt(pre, files, req.FilePath)

\* C4, amended: an error returned before the write of the target (empty
\* content, failed check, failed read, failed backup write) leaves the
\* target as it was; after a failed write of the target, a target that
\* existed before the call has its prior content in the backup just taken.
C4_ErrorBeforeWriteLeavesTarget ==
    ApplyFailed =>
        /\ result.stage # "write" => SameAt(pre, files, req.FilePath)
        /\ (result.stage = "write" /\ req.FilePath \in DOMAIN pre) =>
              /\ backupPath \in DOMAIN files
              /\ files[backupPath] = pre[req.FilePath]

\* a failed backup write left a partial backup behind and the target alone
C4_Witness ==
    /\ ApplyFailed
    /\ result.stage = "backup"
    /\ req.FilePath \in DOMAIN pre
    /\ pre[req.FilePath] # req.NewContent
    /\ files # pre
    /\ files[req.FilePath] = pre[req.FilePath]

\* a marker at the top level of the document: at the start of a line
HasTopLevelMarker(content) ==
    \E i \in 1..Len(Split(content, "\n")) :
        LET line == Split(content, "\n")[i]
        IN  \/ HasPrefix(line, <<"n", "a", "m", "e", ":">>)
            \/ HasPrefix(line, <<"j", "o", "b", "s", ":">>)
            \/ HasPrefix(line, <<"o", "n", ":">>)

\* C5: an Apply with validate=true whose content has none of the required
\* markers at its top level returns a ValidationError before the disk is
\* touched: no backup is created and the target stays as it was.
C5_NoTopLevelMarkerRejected ==
    (ApplyReturned /\ req.ValidateYAML /\ ~HasTopLevelMarker(req.NewContent)) =>
        /\ result.err = "validation"
        /\ files = pre

\* C6: an Apply on a target that does not exist, with non-empty content that
\* passes the validation asked for, succeeds (unless the operating system
\* fails the write), creates the target with the requested content, takes
\* no backup and reports 0 lines added and 0 removed.
C6_ApplyOnAbsentTarget ==
    ( /\ ApplyReturned
      /\ req.FilePath \notin DOMAIN pre
      /\ req.NewContent # EmptyString
      /\ req.ValidateYAML => validateYAML(req.NewContent) = "ok" ) =>
        \/ /\ result.err = "none"
           /\ result.Success
           /\ files = WriteOk(pre, req.FilePath, req.NewContent)
           /\ result.BackupPath = EmptyString
           /\ result.LinesAdded = 0
           /\ result.LinesRemoved = 0
        \/ /\ result.err = "filesystem"
           /\ result.stage = "write"

\* an Apply created a target that was absent
C6_Witness ==
    /\ ApplySucceeded
    /\ req.FilePath \notin DOMAIN pre
    /\ files[req.FilePath] = req.NewContent
    /\ result.BackupPath = EmptyString

----------------------------------------------------------------------------
(* The reply parser's contract *)

\* parseResponse has returned
Parsed == diag.op = "parse"

ParsedOk == Parsed /\ diag.err = "none"

\* C7: every result of ParseReply whose confidence is not HEALTHY has
\* non-empty replacement content, and a reply whose confidence does not
\* resolve to HEALTHY and that has no fenced block fails with a
\* ValidationError.
C7_NonHealthyHasFix ==
    /\ (ParsedOk /\ diag.Confidence # S_HEALTHY) => diag.FixedContent # EmptyString
    /\ (Parsed /\ ExtractConfidence(raw) # S_HEALTHY /\ YamlSubmatch(raw) = <<>>) =>
           diag.err = "validation"

\* C8: a reply whose CONFIDENCE value resolves to HEALTHY parses with
\* success, to empty FixedContent and the canonical healthy explanation,
\* whatever else the reply holds.
C8_HealthyShortCircuit ==
    (Parsed /\ ExtractConfidence(raw) = S_HEALTHY) =>
        /\ diag.err = "none"
        /\ diag.Confidence = S_HEALTHY
        /\ diag.FixedContent = EmptyString
        /\ diag.Explanation = HealthyExplanation

\* a healthy reply that also carries an explanation block and a fenced
\* block with content
C8_Witness ==
    /\ ParsedOk
    /\ diag.Confidence = S_HEALTHY
    /\ ExtractFixedContent(raw) # EmptyString
    /\ ExplanationSubmatch(raw) # <<>>

\* C9: the confidence of every result is the uppercased word after
\* CONFIDENCE: when there is one and MEDIUM when there is none, and it is
\* one of HEALTHY, LOW, MEDIUM, HIGH.
C9_ConfidenceOneOfFour ==
    ParsedOk =>
        /\ diag.Confidence = IF ConfidenceSubmatch(raw) # <<>>
                             THEN ToUpper(ConfidenceSubmatch(raw)[1])
                             ELSE S_MEDIUM
        /\ diag.Confidence \in {S_HEALTHY, S_LOW, S_MEDIUM, S_HIGH}

\* the FIX_TARGET token parseResponse extracted from the reply
HasToken == TargetSubmatch(raw) # <<>>

Token == Trim(TargetSubmatch(raw)[1], Decoration)

\* the cascade as C10 words it, on a token whose backslashes are converted
ClaimedRooting(p) ==
    IF HasPrefix(p, CanonicalDir) THEN p
    ELSE IF HasPrefix(p, <<"g", "i", "t", "h", "u", "b", "/", "w", "o", "r", "k", "f", "l", "o", "w", "s", "/">>) THEN <<".">> \o p
    ELSE IF HasPrefix(p, <<"w", "o", "r", "k", "f", "l", "o", "w", "s", "/">>) THEN <<".", "g", "i", "t", "h", "u", "b", "/">> \o p
    ELSE CanonicalDir \o p

\* C10 as claimed: backslashes become slashes; then a path under the
\* canonical directory is returned as it is, github/workflows/ gets the
\* leading dot, workflows/ gets .github/, and any other token gets
\* .github/workflows/ prepended; every target starts with .github/workflows/.
C10_NormalizeAsClaimed ==
    (ParsedOk /\ HasToken) =>
        /\ diag.TargetFile = ClaimedRooting(ReplaceAll(Token, "\\", "/"))
        /\ HasPrefix(diag.TargetFile, CanonicalDir)

\* C10, amended: as claimed, but a token of the last kind loses one leading
\* slash before .github/workflows/ is prepended.
C10_Normalize ==
    (ParsedOk /\ HasToken) =>
        LET p == ReplaceAll(Token, "\\", "/")
        IN  /\ diag.TargetFile =
                  IF \/ HasPrefix(p, CanonicalDir)
                     \/ HasPrefix(p, <<"g", "i", "t", "h", "u", "b", "/", "w", "o", "r", "k", "f", "l", "o", "w", "s", "/">>)
                     \/ HasPrefix(p, <<"w", "o", "r", "k", "f", "l", "o", "w", "s", "/">>)
                  THEN ClaimedRooting(p)
                  ELSE CanonicalDir \o TrimPrefix(p, <<"/">>)
            /\ HasPrefix(diag.TargetFile, CanonicalDir)

\* a backslash-separated token was re-rooted, and so was one with a leading
\* slash
C10_Witness ==
    /\ ParsedOk
    /\ HasToken
    /\ \/ /\ "\\" \in Range(Token)
          /\ HasPrefix(Token, <<"g", "i", "t", "h", "u", "b", "\\", "w", "o", "r", "k", "f", "l", "o", "w", "s", "\\">>)
          /\ diag.TargetFile = <<".">> \o ReplaceAll(Token, "\\", "/")
       \/ /\ HasPrefix(Token, <<"/">>)
          /\ diag.TargetFile = CanonicalDir \o Tail(Token)

\* s holds p somewhere, up to the case of its letters
ContainsFold(s, p) == \E i \in 1..(Len(s) - Len(p) + 1) : EqualFoldAt(s, i, p)

\* the reply has a fenced block with content and none of the three markers
BlockOnly ==
    /\ ExtractFixedContent(raw) # EmptyString
    /\ ~ContainsFold(raw, S_FIX_TARGET)
    /\ ~ContainsFold(raw, S_CONFIDENCE)
    /\ ~ContainsFold(raw, S_EXPLANATION)

SameInput(a, b) == a.raw = b.raw /\ a.defaultTarget = b.defaultTarget

----------------------------------------------------------------------------
(* The contract of the evidence in the prompt *)

\* the prompt has been built
Prompted == prompt.op = "DiagnoseAndFix"

\* the last n elements of s, by position
TailOf(s, n) == [i \in 1..n |-> s[Len(s) - n + i]]

----------------------------------------------------------------------------
(* The analyzer's contract *)

\* an Analysis has a finding of severity CRITICAL
HasCritical(a) == \E j \in 1..Len(a.Errors) : a.Errors[j].Severity = "CRITICAL"

\* C14: every Analysis with at least one CRITICAL finding has confidence 0.9,
\* whatever its other findings are and however many there are.
C14_CriticalConfidence ==
    \A i \in 1..Len(analyses) :
        HasCritical(analyses[i]) => analyses[i].Confidence = "0.9"

\* more than three findings, one of them CRITICAL and one of them not
C14_Witness ==
    /\ analyses # <<>>
    /\ HasCritical(analyses[1])
    /\ Len(analyses[1].Errors) > 3
    /\ \E j \in 1..Len(analyses[1].Errors) : analyses[1].Errors[j].Severity = "HIGH"
    /\ analyses[1].Confidence = "0.9"

\* C15: without a CRITICAL finding the confidence follows the number n of
\* findings alone: 0.8 for n > 3, 0.6 for n from 1 to 3, and 0.3 with no
\* findings for n = 0, which is what empty evidence gives.
C15_ConfidenceByCount ==
    /\ \A i \in 1..Len(analyses) :
           ~HasCritical(analyses[i]) =>
               analyses[i].Confidence =
                   IF Len(analyses[i].Errors) > 3 THEN "0.8"
                   ELSE IF Len(analyses[i].Errors) >= 1 THEN "0.6"
                   ELSE "0.3"
    /\ (analyses # <<>> /\ logs = EmptyString) =>
           /\ analyses[1].Errors = <<>>
           /\ analyses[1].Confidence = "0.3"

\* exactly three findings, none of them CRITICAL
C15_Witness ==
    /\ analyses # <<>>
    /\ ~HasCritical(analyses[1])
    /\ Len(analyses[1].Errors) = 3
    /\ analyses[1].Confidence = "0.6"

\* the suggestions of the findings, each at its first occurrence
RECURSIVE FirstOccurrences(_, _)
FirstOccurrences(errors, i) ==
    IF i > Len(errors) THEN <<>>
    ELSE IF \E j \in 1..(i - 1) : errors[j].Suggestion = errors[i].Suggestion
    THEN FirstOccurrences(errors, i + 1)
    ELSE <<errors[i].Suggestion>> \o FirstOccurrences(errors, i + 1)

\* C16: for every Analysis and every limit, zero and negative ones included,
\* GetTopSuggestions returns no string twice, no more than limit strings
\* (none for a limit of zero or below), and the suggestions in the order of
\* their first occurrence.
C16_TopSuggestionsWithinLimit ==
    top.op = "GetTopSuggestions" =>
        LET r == top.suggestions
            all == FirstOccurrences(top.analysis.Errors, 1)
        IN  /\ \A a \in 1..Len(r), b \in 1..Len(r) : a # b => r[a] # r[b]
            /\ Len(r) <= IF top.limit > 0 THEN top.limit ELSE 0
            /\ Len(r) <= Len(all)
            /\ r = SubSeq(all, 1, Len(r))

\* the entry of the catalog with a given name
PatternIndex(name) == CHOOSE k \in 1..Len(errorPatterns) : errorPatterns[k].Name = name

\* the signatures that match each line of the evidence of the model
MatchesOn ==
    [l \in LogLines \cup {EmptyString} |->
        {k \in 1..Len(errorPatterns) : PatternMatches(k, l)}]

\* C17: the findings are all the matches of a signature on a line, one
\* finding each, ordered by line and within a line by the catalog; every
\* line number is 1-indexed and no greater than the number of lines.
C17_LineMajor ==
    \A n \in 1..Len(analyses) :
        LET E == analyses[n].Errors
            lines == Split(logs, "\n")
            at(j) == <<E[j].Line, PatternIndex(E[j].Pattern)>>
        IN  /\ \A j \in 1..Len(E) :
                   /\ E[j].Line \in 1..Len(lines)
                   /\ at(j)[2] \in MatchesOn[lines[E[j].Line]]
                   /\ E[j].Message = TrimSpace(lines[E[j].Line])
                   /\ E[j].Severity = errorPatterns[at(j)[2]].Severity
                   /\ E[j].Suggestion = errorPatterns[at(j)[2]].Suggestion
                   /\ E[j].Category = errorPatterns[at(j)[2]].Category
            /\ \A j \in 1..(Len(E) - 1) :
                   \/ at(j)[1] < at(j + 1)[1]
                   \/ at(j)[1] = at(j + 1)[1] /\ at(j)[2] < at(j + 1)[2]
            /\ \A i \in 1..Len(lines) :
                   \A k \in MatchesOn[lines[i]] : \E j \in 1..Len(E) : at(j) = <<i, k>>

\* a line without a match, then a line with one, then a line with two
C17_Witness ==
    /\ analyses # <<>>
    /\ Len(Split(logs, "\n")) = 3
    /\ Len(analyses[1].Errors) = 3
    /\ analyses[1].Errors[1].Line = 2
    /\ analyses[1].Errors[2].Line = 3
    /\ analyses[1].Errors[3].Line = 3
    /\ analyses[1].Errors[2].Pattern # analyses[1].Errors[3].Pattern

\* the groups of a summary: every category of the findings once, each
\* rendered by its count
SummaryGroups(errors) ==
    {IF Cardinality({i \in 1..Len(errors) : errors[i].Category = cat}) = 1
     THEN cat
     ELSE FormatInt(Cardinality({i \in 1..Len(errors) : errors[i].Category = cat}))
              \o <<" ">> \o cat \o <<" ", "e", "r", "r", "o", "r", "s">> :
        cat \in CategoriesOf(errors)}

\* C18: two AnalyzeLogs calls on the same evidence return the same Analysis,
\* Summary included, and the Summary of an Analysis with findings is
\* "Found: " and then one group per category, joined with ", ".
C18_Deterministic ==
    /\ \A i \in 1..Len(analyses), j \in 1..Len(analyses) : analyses[i] = analyses[j]
    /\ \A i \in 1..Len(analyses) :
           analyses[i].Errors # <<>> =>
               \E order \in Orders(SummaryGroups(analyses[i].Errors)) :
                   analyses[i].Summary = <<"F", "o", "u", "n", "d", ":", " ">> \o Join(order, <<",", " ">>)

----------------------------------------------------------------------------
(* The diff statistics *)

\* the distinct non-blank lines of a content
DistinctLines(content) ==
    {l \in Range(Split(content, "\n")) : TrimSpace(l) # <<>>}

\* C19: when Apply overwrites a target that held content, LinesAdded is the
\* number of distinct non-blank lines of the new content that the original
\* does not have, and LinesRemoved the number of distinct non-blank lines
\* of the original that the new content does not have; a repeated line
\* counts once and a reordering of the same lines gives 0 and 0.
C19_DistinctLineDiff ==
    (ApplySucceeded /\ req.FilePath \in DOMAIN pre /\ pre[req.FilePath] # EmptyString) =>
        /\ result.LinesAdded =
               Cardinality(DistinctLines(req.NewContent) \ DistinctLines(pre[req.FilePath]))
        /\ result.LinesRemoved =
               Cardinality(DistinctLines(pre[req.FilePath]) \ DistinctLines(req.NewContent))

----------------------------------------------------------------------------
(* The structural validation *)

\* the running or the last call is an Apply that asked for validation of
\* non-empty content
Validated == result.op = "Apply" /\ req.ValidateYAML /\ req.NewContent # EmptyString

\* the validation failed the call
Rejected == result.err = "validation" /\ result.errOp = "validate_yaml"

\* C20: validation accepts content only if a required marker stands at the
\* top level of the document and the content holds no tab; content with a
\* top-level marker and no tab is always accepted; and content with a
\* marker and a tab is rejected with a ValidationError.
C20_ValidationAsClaimed ==
    Validated =>
        /\ ~Rejected =>
               /\ HasTopLevelMarker(req.NewContent)
               /\ ~Contains(req.NewContent, <<"\t">>)
        /\ (HasTopLevelMarker(req.NewContent) /\ ~Contains(req.NewContent, <<"\t">>))
               => ~Rejected
        /\ (HasTopLevelMarker(req.NewContent) /\ Contains(req.NewContent, <<"\t">>))
               => Rejected /\ FirstTabLine(req.NewContent) >= 1

\* ---------------------------------------------------------------------------
\* Rollback on a disk that already holds a backup
\* ---------------------------------------------------------------------------

\* the backup an earlier run left next to the target
OldBackupPath == BackupPathOf(TargetPath, 0)

\* the disk of SpecRollback: the target absent or with some content, and a
\* backup with some content
InitRollback ==
    /\ files \in {WriteOk(d, OldBackupPath, c) : d \in InitialDisks, c \in Contents}
    /\ now = 0
    /\ pc = "idle"
    /\ req = NoRequest
    /\ originalContent = EmptyString
    /\ existed = FALSE
    /\ backupPath = EmptyString
    /\ result = NoResult
    /\ pre = <<>>
    /\ prev = NoPrev
    /\ ops = 0
    /\ raw = EmptyString
    /\ defaultTarget = EmptyString
    /\ diag = NoResult
    /\ parses = <<>>
    /\ AnalyzerIdle
    /\ PromptIdle
    /\ OthersIdle

\* Rollback, called again and again
NextRollback ==
    /\ \E filePath \in Targets, bPath \in RollbackPaths,
          readFails \in BOOLEAN, writeFails \in BOOLEAN :
          Rollback(filePath, bPath, readFails, writeFails)
    /\ UNCHANGED <<parseVars, analyzerVars, promptVars, otherVars>>

SpecRollback == InitRollback /\ [][NextRollback]_vars

\* the last call was a Rollback
RollbackReturned == pc = "idle" /\ result.op = "Rollback"

\* the last two calls were successful Rollbacks with the same two paths
RolledBackTwice ==
    /\ RollbackReturned
    /\ result.err = "none"
    /\ prev.result.op = "Rollback"
    /\ prev.result.err = "none"
    /\ prev.result.filePath = result.filePath
    /\ prev.result.backupPath = result.backupPath

\* C21: a successful Rollback leaves the target holding the backup's content
\* and the backup as it was; a Rollback whose backup cannot be read fails with
\* a filesystem error that carries backupPath and leaves the disk as it was;
\* the same Rollback a second time changes nothing.
C21_Rollback ==
    RollbackReturned =>
        /\ result.err = "none" =>
              /\ result.backupPath \in DOMAIN pre
              /\ result.filePath \in DOMAIN files
              /\ files[result.filePath] = pre[result.backupPath]
              /\ result.backupPath \in DOMAIN files
              /\ files[result.backupPath] = pre[result.backupPath]
              /\ \A p \in DOMAIN pre \ {result.filePath} :
                    p \in DOMAIN files /\ files[p] = pre[p]
        /\ result.backupPath \notin DOMAIN pre => result.err # "none"
        /\ (result.err # "none" /\ result.stage = "read") =>
              /\ result.err = "filesystem"
              /\ result.errOp = "rollback"
              /\ result.errPath = result.backupPath
              /\ files = pre
        /\ RolledBackTwice => files = pre

\* the same Rollback succeeded twice over a target that held something else
\* than the backup before the first of them
C21_Witness ==
    /\ RolledBackTwice
    /\ result.filePath \in DOMAIN prev.pre
    /\ prev.pre[result.filePath] # prev.pre[result.backupPath]
    /\ files[result.filePath] = prev.pre[result.backupPath]

\* ---------------------------------------------------------------------------
\* ListBackups, after Applies on targets of two directories
\* ---------------------------------------------------------------------------

\* the index of the last "/" of path, 0 when it has none
LastSlash(path) ==
    LET at == {i \in 1..Len(path) : path[i] = "/"}
    IN  IF at = {} THEN 0 ELSE CHOOSE i \in at : \A j \in at : j <= i

\* filepath.Dir and filepath.Base, for the clean relative paths of the model
Dir(path) ==
    IF LastSlash(path) = 0 THEN <<".">> ELSE SubSeq(path, 1, LastSlash(path) - 1)

Base(path) == SubSeq(path, LastSlash(path) + 1, Len(path))

\* filepath.Join(dir, name) of a clean directory and an entry's name
JoinPath(dir, name) == IF dir = <<".">> THEN name ELSE dir \o <<"/">> \o name

\* the characters of the model's file names, in byte order
CharOrder ==
    <<".", "/", "0", "1", "2", "3", "4", "5", "6", "7", "8", "9", "_",
      "a", "b", "c", "d", "e", "f", "g", "h", "i", "j", "k", "l", "m",
      "n", "o", "p", "q", "r", "s", "t", "u", "v", "w", "x", "y", "z">>

Rank(c) == CHOOSE i \in 1..Len(CharOrder) : CharOrder[i] = c

\* a < b, as Go compares strings
LessString(a, b) ==
    \E k \in 1..(Len(b)) :
        /\ \A i \in 1..(k - 1) : i <= Len(a) /\ a[i] = b[i]
        /\ \/ k = Len(a) + 1
           \/ k <= Len(a) /\ Rank(a[k]) < Rank(b[k])

RECURSIVE SortStrings(_)
SortStrings(S) ==
    IF S = {} THEN <<>>
    ELSE LET least == CHOOSE a \in S : \A b \in S \ {a} : LessString(a, b)
         IN  <<least>> \o SortStrings(S \ {least})

\* os.ReadDir(dir): the names of the entries of dir, sorted by name
ReadDir(fs, dir) == SortStrings({Base(p) : p \in {q \in DOMAIN fs : Dir(q) = dir}})

\* ListBackups returning the names of the entries without their directory
ListBackups_NamesOnly(filePath, ioFails) ==
    /\ pc = "idle"
    /\ pre' = files
    /\ prev' = NoPrev
    /\ LET dir == Dir(filePath)
           pattern == Base(filePath) \o <<".">>
           entries == ReadDir(files, dir)
           kept == SelectSeq(entries, LAMBDA name :
                       HasPrefix(name, pattern) /\ HasSuffix(name, BackupSuffix))
       IN  IF ioFails
           THEN result' = ErrResult("ListBackups", "filesystem", "list_backups", dir, "read")
                            @@ [filePath |-> filePath]
           ELSE result' = [op |-> "ListBackups", err |-> "none", filePath |-> filePath,
                           backups |-> kept]
    /\ UNCHANGED <<files, now, pc, req, originalContent, existed, backupPath, ops>>

\* ListBackups, lines 230-249
ListBackups(filePath, ioFails) ==
    /\ pc = "idle"
    /\ pre' = files
    /\ prev' = NoPrev
    /\ LET dir == Dir(filePath)
           pattern == Base(filePath) \o <<".">>
           entries == ReadDir(files, dir)
           kept == SelectSeq(entries, LAMBDA name :
                       HasPrefix(name, pattern) /\ HasSuffix(name, BackupSuffix))
       IN  IF ioFails
           THEN result' = ErrResult("ListBackups", "filesystem", "list_backups", dir, "read")
                            @@ [filePath |-> filePath]
           ELSE result' = [op |-> "ListBackups", err |-> "none", filePath |-> filePath,
                           backups |-> [i \in 1..Len(kept) |-> JoinPath(dir, kept[i])]]
    /\ UNCHANGED <<files, now, pc, req, originalContent, existed, backupPath, ops>>

\* the step that ends an Apply, with the backup a successful one returned
\* added to the record of backups taken
ApplyWriteNoted(ioFails) ==
    /\ ApplyWrite(ioFails)
    /\ taken' = IF result'.err = "none" /\ result'.BackupPath # EmptyString
                THEN Append(taken, [FilePath |-> req.FilePath,
                                    BackupPath |-> result'.BackupPath,
                                    Content |-> originalContent])
                ELSE taken
    /\ UNCHANGED external

\* a target in the working directory and one in a directory below it
NestedTarget == <<"d", "/">> \o TargetPath
ListTargets == {TargetPath, NestedTarget}

\* what SpecList writes
ListContents == {<<"a">>, <<"b">>}

\* the disk of SpecList: the two targets, and next to the first of them a
\* file that only starts like a backup of it and a backup of another file
ListDisk ==
    LET paths == { TargetPath,
                   NestedTarget,
                   TargetPath \o <<".", "x">>,
                   <<"v">> \o BackupPathOf(<<>>, 0) }
    IN  [p \in paths |-> <<"a">>]

InitList ==
    /\ files = ListDisk
    /\ now = 0
    /\ pc = "idle"
    /\ req = NoRequest
    /\ originalContent = EmptyString
    /\ existed = FALSE
    /\ backupPath = EmptyString
    /\ result = NoResult
    /\ pre = <<>>
    /\ prev = NoPrev
    /\ ops = 0
    /\ raw = EmptyString
    /\ defaultTarget = EmptyString
    /\ diag = NoResult
    /\ parses = <<>>
    /\ AnalyzerIdle
    /\ PromptIdle
    /\ OthersIdle

\* Applies on the two targets whose reads and writes succeed, the clock, and
\* ListBackups between the calls
NextList ==
    \/ /\ \E path \in ListTargets, content \in ListContents : ApplyCall(path, content, FALSE)
       /\ UNCHANGED <<parseVars, analyzerVars, promptVars, otherVars>>
    \/ /\ ApplyRead(FALSE)
       /\ UNCHANGED <<parseVars, analyzerVars, promptVars, otherVars>>
    \/ /\ ApplyBackup(FALSE)
       /\ UNCHANGED <<parseVars, analyzerVars, promptVars, otherVars>>
    \/ /\ ApplyWriteNoted(FALSE)
       /\ UNCHANGED <<parseVars, analyzerVars, promptVars, pipelineVars, runVars>>
    \/ /\ Tick
       /\ UNCHANGED <<parseVars, analyzerVars, promptVars, otherVars>>
    \/ /\ \E filePath \in ListTargets, ioFails \in BOOLEAN : ListBackups(filePath, ioFails)
       /\ UNCHANGED <<parseVars, analyzerVars, promptVars, otherVars>>

SpecList == InitList /\ [][NextList]_vars

\* the last call was a ListBackups that returned a list
ListReturned == pc = "idle" /\ result.op = "ListBackups" /\ result.err = "none"

\* the backups the successful Applies on filePath have returned
TakenFor(filePath) ==
    {taken[i].BackupPath : i \in {j \in 1..Len(taken) : taken[j].FilePath = filePath}}

\* C22: after successful Applies, ListBackups(P) returns every BackupPath
\* that an Apply on P returned, and only directory entries whose name starts
\* with the base name of P and ends with the backup suffix.
C22_ListBackups ==
    ListReturned =>
        /\ TakenFor(result.filePath) \subseteq Range(result.backups)
        /\ \A i \in 1..Len(result.backups) :
              /\ result.backups[i] \in DOMAIN files
              /\ Dir(result.backups[i]) = Dir(result.filePath)
              /\ HasPrefix(Base(result.backups[i]), Base(result.filePath))
              /\ HasSuffix(Base(result.backups[i]), BackupSuffix)
        /\ files = pre

\* two Applies on the nested target returned two backups, and ListBackups
\* listed the two
C22_Witness ==
    /\ ListReturned
    /\ result.filePath = NestedTarget
    /\ Cardinality(TakenFor(NestedTarget)) = 2
    /\ Len(result.backups) = 2

\* ---------------------------------------------------------------------------
\* PreviewDiff
\* ---------------------------------------------------------------------------

\* PreviewDiff's maxLines: the preview compares the first 20 lines
PreviewWindow == 20

S_NewFile == <<"[", "N", "E", "W", " ", "F", "I", "L", "E", "]", "\n">>
S_ChangesTo == <<"=", "=", "=", " ", "C", "h", "a", "n", "g", "e", "s", " ", "t", "o", " ">>
S_ChangesEnd == <<" ", "=", "=", "=", "\n", "\n">>
S_Removed == <<"-", " ">>
S_Added == <<"+", " ">>
S_MoreOpen == <<"\n", ".", ".", ".", " ", "(">>
S_MoreClose == <<" ", "m", "o", "r", "e", " ", "l", "i", "n", "e", "s", ")", "\n">>

\* PreviewDiff, lines 203-220: the loop over the line positions i..maxLines
\* (1-indexed)
RECURSIVE PreviewLines(_, _, _, _)
PreviewLines(originalLines, newLines, i, maxLines) ==
    IF i > maxLines THEN <<>>
    ELSE LET orig == IF i <= Len(originalLines) THEN originalLines[i] ELSE EmptyString
             new == IF i <= Len(newLines) THEN newLines[i] ELSE EmptyString
             removed == IF orig # EmptyString THEN S_Removed \o orig \o <<"\n">> ELSE <<>>
             added == IF new # EmptyString THEN S_Added \o new \o <<"\n">> ELSE <<>>
         IN  (IF orig # new THEN removed \o added ELSE <<>>)
                \o PreviewLines(originalLines, newLines, i + 1, maxLines)

\* PreviewDiff, lines 191-226: the preview of newContent over the content
\* read from filePath
PreviewText(filePath, original, newContent) ==
    LET originalLines == Split(original, "\n")
        newLines == Split(newContent, "\n")
        maxLines == IF Len(newLines) < PreviewWindow THEN Len(newLines) ELSE PreviewWindow
        more == IF Len(newLines) > maxLines
                THEN S_MoreOpen \o FormatInt(Len(newLines) - maxLines) \o S_MoreClose
                ELSE <<>>
    IN  S_ChangesTo \o Base(filePath) \o S_ChangesEnd
           \o PreviewLines(originalLines, newLines, 1, maxLines) \o more

\* PreviewDiff, lines 182-227
PreviewDiff(filePath, newContent, ioFails) ==
    /\ pc = "idle"
    /\ pre' = files
    /\ prev' = NoPrev
    /\ IF filePath \notin DOMAIN files
       THEN /\ ~ioFails
            /\ result' = [op |-> "PreviewDiff", err |-> "none", filePath |-> filePath,
                          newContent |-> newContent, text |-> S_NewFile \o newContent]
       ELSE IF ioFails
       THEN result' = ErrResult("PreviewDiff", "filesystem", "preview_diff", filePath, "read")
                        @@ [filePath |-> filePath, newContent |-> newContent]
       ELSE result' = [op |-> "PreviewDiff", err |-> "none", filePath |-> filePath,
                       newContent |-> newContent,
                       text |-> PreviewText(filePath, files[filePath], newContent)]
    /\ UNCHANGED <<files, now, pc, req, originalContent, existed, backupPath, ops>>

\* a content of 22 lines: one line and 21 blank ones
LongContent == <<"a">> \o [i \in 1..(PreviewWindow + 1) |-> "\n"]

\* the contents of SpecPreview: one line, another line, two lines, a line
\* and a blank one, and one content longer than the window
PreviewContents ==
    { <<"a">>, <<"b">>, <<"a", "\n", "b">>, <<"a", "\n">>, LongContent }

InitPreview ==
    /\ files \in UNION {[P -> PreviewContents] : P \in SUBSET ListTargets}
    /\ now = 0
    /\ pc = "idle"
    /\ req = NoRequest
    /\ originalContent = EmptyString
    /\ existed = FALSE
    /\ backupPath = EmptyString
    /\ result = NoResult
    /\ pre = <<>>
    /\ prev = NoPrev
    /\ ops = 0
    /\ raw = EmptyString
    /\ defaultTarget = EmptyString
    /\ diag = NoResult
    /\ parses = <<>>
    /\ AnalyzerIdle
    /\ PromptIdle
    /\ OthersIdle

NextPreview ==
    /\ \E filePath \in ListTargets, newContent \in PreviewContents, ioFails \in BOOLEAN :
          PreviewDiff(filePath, newContent, ioFails)
    /\ UNCHANGED <<parseVars, analyzerVars, promptVars, otherVars>>

SpecPreview == InitPreview /\ [][NextPreview]_vars

\* the last call was a PreviewDiff that returned a preview
PreviewReturned == pc = "idle" /\ result.op = "PreviewDiff" /\ result.err = "none"

\* the rendering of the positions i..PreviewWindow where the two sides
\* differ: the original line as removed and the new line as added, each
\* where the side has a line i
RECURSIVE MismatchesFrom(_, _, _)
MismatchesFrom(originalLines, newLines, i) ==
    IF i > PreviewWindow \/ (i > Len(originalLines) /\ i > Len(newLines)) THEN <<>>
    ELSE LET hasOrig == i <= Len(originalLines)
             hasNew == i <= Len(newLines)
             differ == ~(hasOrig /\ hasNew /\ originalLines[i] = newLines[i])
             removed == IF hasOrig THEN S_Removed \o originalLines[i] \o <<"\n">> ELSE <<>>
             added == IF hasNew THEN S_Added \o newLines[i] \o <<"\n">> ELSE <<>>
         IN  (IF differ THEN removed \o added ELSE <<>>)
                \o MismatchesFrom(originalLines, newLines, i + 1)

\* C23: PreviewDiff leaves the disk as it was; for an absent path it returns
\* the new content after "[NEW FILE]"; for an existing path it renders every
\* one of the first 20 line positions where the two sides differ as the
\* original line removed and the new line added, and ends with
\* "(k more lines)" exactly when the new content has k > 0 lines past the 20.
C23_PreviewAsClaimed ==
    PreviewReturned =>
        /\ files = pre
        /\ result.filePath \notin DOMAIN pre =>
              result.text = S_NewFile \o result.newContent
        /\ result.filePath \in DOMAIN pre =>
              LET originalLines == Split(pre[result.filePath], "\n")
                  newLines == Split(result.newContent, "\n")
                  k == Len(newLines) - PreviewWindow
                  more == IF k > 0 THEN S_MoreOpen \o FormatInt(k) \o S_MoreClose ELSE <<>>
              IN  result.text = S_ChangesTo \o Base(result.filePath) \o S_ChangesEnd
                                   \o MismatchesFrom(originalLines, newLines, 1) \o more

\* ---------------------------------------------------------------------------
\* Apply, with another process writing the target while it runs
\* ---------------------------------------------------------------------------

\* what the other process writes
ExternalContents == {<<"x">>, <<"a">>}

\* another process overwrites the target after Apply has read it and before
\* Apply has written it
ExternalWrite(content) ==
    /\ pc \in {"backup", "write"}
    /\ external = NoResult
    /\ files' = WriteOk(files, req.FilePath, content)
    /\ external' = [op |-> "write", content |-> content, before |-> files]
    /\ UNCHANGED <<now, pc, req, originalContent, existed, backupPath, result,
                   pre, prev, ops, taken>>

\* Apply and, between its steps, the other process
NextRace ==
    \/ /\ \E path \in Targets, content \in Contents, validate \in BOOLEAN :
             ApplyCall(path, content, validate)
       /\ external' = NoResult
       /\ UNCHANGED <<parseVars, analyzerVars, promptVars, taken, pipelineVars, runVars>>
    \/ /\ \E ioFails \in BOOLEAN : ApplyRead(ioFails)
       /\ UNCHANGED <<parseVars, analyzerVars, promptVars, otherVars>>
    \/ /\ \E ioFails \in BOOLEAN : ApplyBackup(ioFails)
       /\ UNCHANGED <<parseVars, analyzerVars, promptVars, otherVars>>
    \/ /\ \E ioFails \in BOOLEAN : ApplyWrite(ioFails)
       /\ UNCHANGED <<parseVars, analyzerVars, promptVars, otherVars>>
    \/ /\ \E content \in ExternalContents : ExternalWrite(content)
       /\ UNCHANGED <<parseVars, analyzerVars, promptVars, pipelineVars, runVars>>

SpecRace == Init /\ [][NextRace]_vars

\* the last call was an Apply during which the other process wrote
RacedApplyReturned == ApplyReturned /\ external.op = "write"

\* C24: when another process overwrites the target between Apply's read and
\* Apply's write, the backup holds the content Apply read, Apply fails only
\* if one of its own writes fails, and after a successful Apply the target
\* holds the requested content: what the other process wrote is in neither.
C24_ExternalWriter ==
    RacedApplyReturned =>
        /\ result.err # "none" => result.stage \in {"backup", "write"}
        /\ result.err = "none" =>
              /\ files[req.FilePath] = req.NewContent
              /\ existed =>
                    /\ originalContent = pre[req.FilePath]
                    /\ result.BackupPath \in DOMAIN files
                    /\ files[result.BackupPath] = originalContent
              /\ ~existed => result.BackupPath = EmptyString

\* an Apply on an existing target succeeded although the other process had
\* put a third content into the target before the backup was written
C24_Witness ==
    /\ RacedApplyReturned
    /\ result.err = "none"
    /\ existed
    /\ external.content \notin {originalContent, req.NewContent}
    /\ result.BackupPath \notin DOMAIN external.before
    /\ originalContent # req.NewContent

\* ---------------------------------------------------------------------------
\* internal/api: analyzeAndFix and applyFix, the run of the pipeline on one
\* failed workflow run
\* ---------------------------------------------------------------------------

\* "[No job execution logs available - workflow may have configuration error]"
NoLogsPlaceholder == <<"[", "N", "o", " ", "j", "o", "b", " ", "e", "x", "e", "c", "u", "t", "i", "o", "n", " ", "l", "o", "g", "s", " ", "a", "v", "a", "i", "l", "a", "b", "l", "e", " ", "-", " ", "w", "o", "r", "k", "f", "l", "o", "w", " ", "m", "a", "y", " ", "h", "a", "v", "e", " ", "c", "o", "n", "f", "i", "g", "u", "r", "a", "t", "i", "o", "n", " ", "e", "r", "r", "o", "r", "]">>

\* "[No job execution logs"
S_NoLogsPrefix == <<"[", "N", "o", " ", "j", "o", "b", " ", "e", "x", "e", "c", "u", "t", "i", "o", "n", " ", "l", "o", "g", "s">>

\* the keys the user may press in the confirmation dialog
Keys == {"y", "Y", "n", "N", "q", "esc", "ctrl+c", "x", "enter"}
ConfirmKeys == {"y", "Y"}
CancelKeys == {"n", "N", "q", "esc", "ctrl+c"}

\* at most MaxKeys keys that the dialog ignores are pressed in one run
MaxKeys == 1

\* the keys of the trail that the dialog ignored
IgnoredKeys(t) == SelectSeq(t, LAMBDA e : e \in Keys \ (ConfirmKeys \cup CancelKeys))

\* DiagnoseAndFix, lines 55-63, and buildDiagnosisPrompt, line 90, for the
\* ErrorLogs of a DiagnosisRequest
PromptFor(errLogs) ==
    LET l == IF Len(errLogs) > MaxLogSize
             THEN TruncatedMarker \o LastBytes(errLogs, MaxLogSize)
             ELSE errLogs
    IN  [op |-> "DiagnoseAndFix", logs |-> l, safeErrorLogs |-> ReplaceAll(l, "\"", "'")]

\* analyzeAndFix, lines 215-228: the logs are fetched; when that fails the
\* placeholder stands in for them
FetchJobLogs(noFailedJob) ==
    /\ step = "start"
    /\ GetWorkflowJobLogs(noFailedJob)
    /\ evidence' = IF noFailedJob THEN NoLogsPlaceholder ELSE errorLogs'.logs
    /\ trail' = Append(trail, IF noFailedJob THEN "no logs" ELSE "logs")
    /\ step' = "analysis"
    /\ UNCHANGED outcome

\* analyzeAndFix, lines 230-254: the pattern analysis and its top three
\* suggestions, skipped when there are no real logs
PatternAnalysis ==
    /\ step = "analysis"
    /\ IF evidence # EmptyString /\ ~Contains(evidence, S_NoLogsPrefix)
       THEN LET errors == MatchLines(Split(evidence, "\n"), 1)
            IN  \E order \in Orders(CategoriesOf(errors)) :
                   LET analysis == Analyze(errors, order)
                   IN  /\ logs' = evidence
                       /\ analyses' = <<analysis>>
                       /\ top' = [op |-> "GetTopSuggestions", limit |-> 3,
                                  analysis |-> analysis,
                                  suggestions |-> GetTopSuggestions(analysis, 3)]
                       /\ trail' = Append(trail, "analysis")
       ELSE UNCHANGED <<logs, analyses, top, trail>>
    /\ step' = "diagnosis"
    /\ UNCHANGED <<evidence, outcome>>

\* analyzeAndFix, lines 263-288, with DiagnoseAndFix: the oracle is asked,
\* its reply is parsed, and only a diagnosis with a fix goes on to applyFix
Diagnose(reply, oracleFails) ==
    /\ step = "diagnosis"
    /\ prompt' = PromptFor(evidence)
    /\ IF oracleFails
       THEN /\ outcome' = "AI diagnosis failed"
            /\ step' = "done"
            /\ trail' = Append(trail, "oracle failed")
            /\ UNCHANGED <<raw, defaultTarget, diag>>
       ELSE LET d == parseResponse(reply, SelectedPath)
            IN  /\ raw' = reply
                /\ defaultTarget' = SelectedPath
                /\ diag' = [op |-> "parse"] @@ d
                /\ IF d.err # "none"
                   THEN /\ outcome' = "AI diagnosis failed"
                        /\ step' = "done"
                        /\ trail' = Append(trail, "parse failed")
                   ELSE IF d.FixedContent # EmptyString /\ d.Confidence # S_HEALTHY
                   THEN /\ step' = "preview"
                        /\ trail' = Append(trail, "parsed")
                        /\ UNCHANGED outcome
                   ELSE /\ outcome' = "nil"
                        /\ step' = "done"
                        /\ trail' = Append(trail, "no fix")
    /\ UNCHANGED <<parses, jobLogs, errorLogs, evidence>>

\* applyFix, lines 318-345: the preview, which a failed read only skips
ShowPreview(ioFails) ==
    /\ step = "preview"
    /\ PreviewDiff(diag.TargetFile, diag.FixedContent, ioFails)
    /\ step' = "confirm"
    /\ UNCHANGED <<evidence, trail, outcome>>

\* ConfirmationModel.Update with any key but y and Y ending the dialog as
\* confirmed
KeyPress_EnterConfirms(key) ==
    /\ step = "confirm"
    /\ trail' = Append(trail, key)
    /\ IF key \in ConfirmKeys \cup {"enter"}
       THEN step' = "apply" /\ UNCHANGED outcome
       ELSE IF key \in CancelKeys
       THEN step' = "done" /\ outcome' = "nil"
       ELSE /\ Len(IgnoredKeys(trail)) < MaxKeys
            /\ UNCHANGED <<step, outcome>>
    /\ UNCHANGED evidence

\* ConfirmationModel.Update, and applyFix, lines 348-359: y and Y confirm,
\* n, N, q, esc and ctrl+c cancel, any other key leaves the dialog open
KeyPress(key) ==
    /\ step = "confirm"
    /\ trail' = Append(trail, key)
    /\ IF key \in ConfirmKeys
       THEN step' = "apply" /\ UNCHANGED outcome
       ELSE IF key \in CancelKeys
       THEN step' = "done" /\ outcome' = "nil"
       ELSE /\ Len(IgnoredKeys(trail)) < MaxKeys
            /\ UNCHANGED <<step, outcome>>
    /\ UNCHANGED evidence

\* ShowConfirmation, lines 160-163, and applyFix, lines 352-354: the dialog
\* could not run
ConfirmationFailed ==
    /\ step = "confirm"
    /\ trail' = Append(trail, "dialog failed")
    /\ step' = "done"
    /\ outcome' = "confirmation dialog failed"
    /\ UNCHANGED evidence

\* applyFix, lines 361-369: the call of Apply
StartApply ==
    /\ step = "apply"
    /\ ApplyCall(diag.TargetFile, diag.FixedContent, TRUE)
    /\ trail' = Append(trail, "apply")
    /\ step' = "applying"
    /\ UNCHANGED <<evidence, outcome>>

\* applyFix, lines 370-388: Apply has returned
FinishApply ==
    /\ step = "applying"
    /\ pc = "idle"
    /\ step' = "done"
    /\ outcome' = IF result.err = "none" THEN "nil" ELSE "failed to apply patch"
    /\ UNCHANGED <<evidence, trail>>

\* the workflow the oracle may name instead of the selected one
OtherWorkflow == CanonicalDir \o <<"c", "i", ".", "y", "m", "l">>

\* the logs of the failed jobs: one that fits the budget and one that does not
PipelineLogs == { <<"o", "k", "\n">>, <<"n", "p", "m", " ", "E", "R", "R", "!", "\n">> }

\* a fenced block with content that passes validateYAML, and one with
\* content that does not
S_GoodBlock == <<Backtick, Backtick, Backtick, "y", "a", "m", "l", "\n", "o", "n", ":", "\n", Backtick, Backtick, Backtick, "\n">>
S_BadBlock == <<Backtick, Backtick, Backtick, "y", "a", "m", "l", "\n", "x", "\n", Backtick, Backtick, Backtick, "\n">>

\* the oracle's replies: a fix for the selected workflow, a fix for another
\* one, a fix above the workflow directory, a fix that is no workflow, a
\* reply without a fix, a healthy verdict, and a healthy verdict with a block
PipelineReplies ==
    { S_GoodBlock,
      <<"F", "I", "X", "_", "T", "A", "R", "G", "E", "T", ":", " ", "c", "i", ".", "y", "m", "l", "\n", "C", "O", "N", "F", "I", "D", "E", "N", "C", "E", ":", " ", "H", "I", "G", "H", "\n">> \o S_GoodBlock,
      <<"F", "I", "X", "_", "T", "A", "R", "G", "E", "T", ":", " ", ".", ".", "/", ".", ".", "/", "x", ".", "y", "m", "l", "\n">> \o S_GoodBlock,
      S_BadBlock,
      <<"E", "X", "P", "L", "A", "N", "A", "T", "I", "O", "N", ":", " ", "e", "\n">>,
      <<"C", "O", "N", "F", "I", "D", "E", "N", "C", "E", ":", " ", "H", "E", "A", "L", "T", "H", "Y", "\n">>,
      <<"C", "O", "N", "F", "I", "D", "E", "N", "C", "E", ":", " ", "H", "E", "A", "L", "T", "H", "Y", "\n">> \o S_GoodBlock }

\* the checkout: the selected workflow, and with or without the other one
PipelineDisks ==
    { [p \in {SelectedPath} |-> <<"a">>], [p \in {SelectedPath, OtherWorkflow} |-> <<"a">>] }

InitPipeline ==
    /\ files \in PipelineDisks
    /\ now = 0
    /\ pc = "idle"
    /\ req = NoRequest
    /\ originalContent = EmptyString
    /\ existed = FALSE
    /\ backupPath = EmptyString
    /\ result = NoResult
    /\ pre = <<>>
    /\ prev = NoPrev
    /\ ops = 0
    /\ ParseIdle
    /\ AnalyzerIdle
    /\ jobLogs \in PipelineLogs
    /\ errorLogs = NoResult
    /\ prompt = NoResult
    /\ HistoryIdle
    /\ RunsIdle
    /\ step = "start"
    /\ evidence = EmptyString
    /\ trail = <<>>
    /\ outcome = "none"

NextPipeline ==
    \/ /\ \E noFailedJob \in BOOLEAN : FetchJobLogs(noFailedJob)
       /\ UNCHANGED <<patchVars, parseVars, analyzerVars, historyVars, runVars>>
    \/ /\ PatternAnalysis
       /\ UNCHANGED <<patchVars, parseVars, promptVars, historyVars, runVars>>
    \/ /\ \E reply \in PipelineReplies, oracleFails \in BOOLEAN : Diagnose(reply, oracleFails)
       /\ UNCHANGED <<patchVars, analyzerVars, historyVars, runVars>>
    \/ /\ \E ioFails \in BOOLEAN : ShowPreview(ioFails)
       /\ UNCHANGED <<parseVars, analyzerVars, promptVars, historyVars, runVars>>
    \/ /\ \E key \in Keys : KeyPress(key)
       /\ UNCHANGED <<patchVars, parseVars, analyzerVars, promptVars, historyVars, runVars>>
    \/ /\ ConfirmationFailed
       /\ UNCHANGED <<patchVars, parseVars, analyzerVars, promptVars, historyVars, runVars>>
    \/ /\ StartApply
       /\ UNCHANGED <<parseVars, analyzerVars, promptVars, historyVars, runVars>>
    \/ /\ \E ioFails \in BOOLEAN : ApplyRead(ioFails)
       /\ UNCHANGED <<parseVars, analyzerVars, promptVars, otherVars>>
    \/ /\ \E ioFails \in BOOLEAN : ApplyBackup(ioFails)
       /\ UNCHANGED <<parseVars, analyzerVars, promptVars, otherVars>>
    \/ /\ \E ioFails \in BOOLEAN : ApplyWrite(ioFails)
       /\ UNCHANGED <<parseVars, analyzerVars, promptVars, otherVars>>
    \/ /\ FinishApply
       /\ UNCHANGED <<patchVars, parseVars, analyzerVars, promptVars, historyVars, runVars>>

SpecPipeline == InitPipeline /\ [][NextPipeline]_vars

\* the diagnosis parsed, with a fix and a confidence other than HEALTHY
Fixable ==
    /\ diag.op = "parse"
    /\ diag.err = "none"
    /\ diag.FixedContent # EmptyString
    /\ diag.Confidence # S_HEALTHY

\* after the diagnosis parsed, the dialog was ended by y or Y
ConfirmedAfterParse ==
    \E i, j \in 1..Len(trail) :
        /\ i < j
        /\ trail[i] = "parsed"
        /\ trail[j] \in ConfirmKeys
        /\ \A k \in (i + 1)..(j - 1) : trail[k] \in Keys \ (ConfirmKeys \cup CancelKeys)
        /\ \A k \in (j + 1)..Len(trail) : trail[k] = "apply"

\* C25: Apply is called, and a file is written, only after the diagnosis
\* parsed with a fix and a confidence other than HEALTHY and the user then
\* pressed y or Y; a run that ends with a failed oracle, a failed parse, a
\* diagnosis without a fix or a cancelled dialog has written nothing.
C25_ApplyOnlyAfterConfirmation ==
    /\ [](ops > 0 =>
              /\ Fixable
              /\ ConfirmedAfterParse
              /\ req.FilePath = diag.TargetFile
              /\ req.NewContent = diag.FixedContent)
    /\ [][(ops' # ops \/ files' # files) =>
              /\ Fixable
              /\ ConfirmedAfterParse
              /\ step \in {"apply", "applying"}]_vars
    /\ []((step = "done" /\ "apply" \notin Range(trail)) =>
              /\ files \in PipelineDisks
              /\ ops = 0)

\* a run in which the user pressed a key the dialog ignores and then Y, and
\* Apply patched the workflow the oracle named
C25_Witness ==
    /\ step = "done"
    /\ outcome = "nil"
    /\ result.op = "Apply"
    /\ result.err = "none"
    /\ "enter" \in Range(trail)
    /\ "Y" \in Range(trail)
    /\ req.FilePath = OtherWorkflow
    /\ files[OtherWorkflow] = diag.FixedContent

\* the run fetched no logs and put the placeholder in their place
PlaceholderUsed == trail # <<>> /\ trail[1] = "no logs"

\* C26: when the logs cannot be fetched and the placeholder stands in for
\* them, the placeholder is never handed to the LogAnalyzer and is not what
\* the prompt shows the oracle as the failure logs, and the run still goes
\* on to the diagnosis.
C26_PlaceholderIsNoSignal ==
    PlaceholderUsed =>
        /\ evidence = NoLogsPlaceholder
        /\ analyses = <<>>
        /\ top = NoResult
        /\ step = "done" => prompt.op = "DiagnoseAndFix"
        /\ prompt.op = "DiagnoseAndFix" => prompt.logs # PromptFor(NoLogsPlaceholder).logs

\* ---------------------------------------------------------------------------
\* pkg/github: GetFailedWorkflowRuns
\* ---------------------------------------------------------------------------

\* at most MaxRuns runs are listed
MaxRuns == 2

\* the head SHAs of the runs: two of seven characters, one of three and the
\* empty string that GetHeadSHA gives for a run without one
RunSHAs ==
    { <<"a", "b", "c", "1", "2", "3", "4">>,
      <<"d", "e", "f", "5", "6", "7", "8">>,
      <<"a", "b", "c">>,
      <<>> }

\* the WorkflowRun values of the model
WorkflowRuns ==
    [HeadSHA : RunSHAs, Status : {"completed", "in_progress"},
     Conclusion : {"success", "failure", "cancelled", ""}]

\* GetFailedWorkflowRuns, line 159: the run counts as failed
IsFailedRun(run) ==
    \/ run.Conclusion = "failure"
    \/ run.Status = "completed" /\ run.Conclusion # "success"

\* GetFailedWorkflowRuns, lines 137-166.  latestCommitSHA[:7] panics when the
\* SHA has fewer than 7 bytes
GetFailedWorkflowRuns(listFails) ==
    /\ failedRuns = NoResult
    /\ failedRuns' =
          IF listFails
          THEN [op |-> "GetFailedWorkflowRuns", err |-> "github"]
          ELSE IF Len(runs) = 0
          THEN [op |-> "GetFailedWorkflowRuns", err |-> "none", failed |-> <<>>]
          ELSE LET latestCommitSHA == runs[1].HeadSHA
                   failed == SelectSeq(runs, LAMBDA run :
                                 run.HeadSHA = latestCommitSHA /\ IsFailedRun(run))
               IN  IF Len(latestCommitSHA) < 7
                   THEN [op |-> "GetFailedWorkflowRuns", err |-> "panic"]
                   ELSE [op |-> "GetFailedWorkflowRuns", err |-> "none", failed |-> failed]
    /\ UNCHANGED runs

InitRuns ==
    /\ PatchIdle
    /\ ParseIdle
    /\ AnalyzerIdle
    /\ PromptIdle
    /\ HistoryIdle
    /\ PipelineIdle
    /\ runs \in SeqsUpTo(WorkflowRuns, MaxRuns)
    /\ failedRuns = NoResult

NextRuns ==
    /\ \E listFails \in BOOLEAN : GetFailedWorkflowRuns(listFails)
    /\ UNCHANGED <<patchVars, parseVars, analyzerVars, promptVars, historyVars, pipelineVars>>

SpecRuns == InitRuns /\ [][NextRuns]_vars

\* C27: for every list of runs that ListWorkflowRuns returns,
\* GetFailedWorkflowRuns does not panic; it returns the empty list for the
\* empty list, and only runs that have the head SHA of the first run of the
\* list and did not succeed.
C27_FailedRunsOfLatestCommit ==
    (failedRuns.op = "GetFailedWorkflowRuns" /\ failedRuns.err # "github") =>
        /\ failedRuns.err = "none"
        /\ runs = <<>> => failedRuns.failed = <<>>
        /\ \A i \in 1..Len(failedRuns.failed) :
              /\ failedRuns.failed[i].HeadSHA = runs[1].HeadSHA
              /\ failedRuns.failed[i].Conclusion # "success"

\* C28: every backup that a successful Apply has returned still holds the
\* content the target had just before that Apply, whatever Applies came
\* after it, in the same second or later; so the first backup of a target
\* still holds the content the target had before its first patch.
C28_BackupsKept ==
    \A i \in 1..Len(taken) :
        /\ taken[i].BackupPath \in DOMAIN files
        /\ files[taken[i].BackupPath] = taken[i].Content
        /\ (\A j \in 1..(i - 1) : taken[j].FilePath # taken[i].FilePath) =>
              files[taken[i].BackupPath] = ListDisk[taken[i].FilePath]

\* the segments of a relative path once "." and empty segments are dropped
\* and each ".." has removed the segment before it, as the file system
\* resolves the path; a ".." with nothing before it stays
RECURSIVE ResolveFrom(_, _, _)
ResolveFrom(segs, i, stack) ==
    IF i > Len(segs) THEN stack
    ELSE IF segs[i] = <<>> \/ segs[i] = <<".">>
    THEN ResolveFrom(segs, i + 1, stack)
    ELSE IF segs[i] = <<".", ".">> /\ stack # <<>> /\ stack[Len(stack)] # <<".", ".">>
    THEN ResolveFrom(segs, i + 1, SubSeq(stack, 1, Len(stack) - 1))
    ELSE ResolveFrom(segs, i + 1, Append(stack, segs[i]))

\* path denotes a file inside .github/workflows/
InsideWorkflows(path) ==
    LET segs == ResolveFrom(Split(path, "/"), 1, <<>>)
    IN  /\ Len(segs) >= 3
        /\ segs[1] = <<".", "g", "i", "t", "h", "u", "b">>
        /\ segs[2] = <<"w", "o", "r", "k", "f", "l", "o", "w", "s">>

\* C29: whatever the oracle replies, the target the pipeline hands to Apply
\* denotes a file inside .github/workflows/, and so does every file a run of
\* the pipeline writes.
C29_TargetInsideWorkflows ==
    /\ (diag.op = "parse" /\ diag.err = "none") => InsideWorkflows(diag.TargetFile)
    /\ ops > 0 => InsideWorkflows(req.FilePath)
    /\ \A p \in DOMAIN files : InsideWorkflows(p)

\* ---------------------------------------------------------------------------
\* internal/engine: the legacy ApplyPatch
\* ---------------------------------------------------------------------------

\* filePath + ".bak"
LegacyBackupPath(filePath) == filePath \o <<".", "b", "a", "k">>

\* ApplyPatch, lines 9-20.  A failed read of any kind skips the backup, and
\* the outcome of the backup write is discarded
ApplyPatch(filePath, newContent, readFails, backupFails, writeFails) ==
    /\ pc = "idle"
    /\ ops < MaxOps
    /\ ops' = ops + 1
    /\ pre' = files
    /\ prev' = NoPrev
    /\ IF /\ ~Contains(newContent, <<"j", "o", "b", "s", ":">>)
          /\ ~Contains(newContent, <<"n", "a", "m", "e", ":">>)
       THEN /\ result' = [op |-> "ApplyPatch", err |-> "invalid", filePath |-> filePath]
            /\ UNCHANGED files
       ELSE \E backedUp \in
                 IF filePath \in DOMAIN files /\ ~readFails
                 THEN IF backupFails
                      THEN WriteFailed(files, LegacyBackupPath(filePath), files[filePath])
                      ELSE {WriteOk(files, LegacyBackupPath(filePath), files[filePath])}
                 ELSE {files} :
               IF writeFails
               THEN /\ files' \in WriteFailed(backedUp, filePath, newContent)
                    /\ result' = [op |-> "ApplyPatch", err |-> "write", filePath |-> filePath]
               ELSE /\ files' = WriteOk(backedUp, filePath, newContent)
                    /\ result' = [op |-> "ApplyPatch", err |-> "none", filePath |-> filePath]
    /\ UNCHANGED <<now, pc, req, originalContent, existed, backupPath>>

\* ApplyPatch, with the content the file held before the first call on it
\* kept on record
ApplyPatchNoted(filePath, newContent, readFails, backupFails, writeFails) ==
    /\ ApplyPatch(filePath, newContent, readFails, backupFails, writeFails)
    /\ taken' = IF taken = <<>> /\ filePath \in DOMAIN files
                THEN <<[FilePath |-> filePath,
                        BackupPath |-> LegacyBackupPath(filePath),
                        Content |-> files[filePath]]>>
                ELSE taken
    /\ UNCHANGED external

\* the patches handed to ApplyPatch: two that pass its check and one that
\* does not
LegacyContents == {<<"n", "a", "m", "e", ":">>, <<"j", "o", "b", "s", ":">>, <<"x">>}

InitLegacy ==
    /\ files \in {<<>>} \cup {[p \in {TargetPath} |-> c] : c \in {<<"a">>, <<"n", "a", "m", "e", ":">>}}
    /\ now = 0
    /\ pc = "idle"
    /\ req = NoRequest
    /\ originalContent = EmptyString
    /\ existed = FALSE
    /\ backupPath = EmptyString
    /\ result = NoResult
    /\ pre = <<>>
    /\ prev = NoPrev
    /\ ops = 0
    /\ ParseIdle
    /\ AnalyzerIdle
    /\ PromptIdle
    /\ OthersIdle

NextLegacy ==
    /\ \E filePath \in Targets, newContent \in LegacyContents,
          readFails \in BOOLEAN, backupFails \in BOOLEAN, writeFails \in BOOLEAN :
          ApplyPatchNoted(filePath, newContent, readFails, backupFails, writeFails)
    /\ UNCHANGED <<parseVars, analyzerVars, promptVars, pipelineVars, runVars>>

SpecLegacy == InitLegacy /\ [][NextLegacy]_vars

\* C30: ApplyPatch changes an existing file only when filePath.bak holds the
\* content the file had before the call, and once a file has been changed
\* the content it had before the first ApplyPatch on it is the content of
\* a .bak file.
C30_LegacyBackup ==
    result.op = "ApplyPatch" =>
        /\ (result.filePath \in DOMAIN pre /\ files[result.filePath] # pre[result.filePath]) =>
              /\ LegacyBackupPath(result.filePath) \in DOMAIN files
              /\ files[LegacyBackupPath(result.filePath)] = pre[result.filePath]
        /\ (taken # <<>> /\ files[taken[1].FilePath] # taken[1].Content) =>
              /\ taken[1].BackupPath \in DOMAIN files
              /\ files[taken[1].BackupPath] = taken[1].Content

=============================================================================
